---- MODULE Spec2Model ----
(***************************************************************************)
(* A model of nn/modules.py: Parameter, Module, the leaf layers, the two   *)
(* containers (Sequential, ModuleList), the state_dict / load_state_dict   *)
(* serialization and the im2col convolution kernel.                        *)
(*                                                                         *)
(* Numbers.  numpy floats are modelled in fixed point: the integer n       *)
(* stands for n / One, and every product, quotient and square root is      *)
(* rounded down to a multiple of 1 / One.                                  *)
(*                                                                         *)
(* Objects.  Every Python object is a record with a field k naming its     *)
(* kind: "Module" (with its class cls, its attributes attrs and their      *)
(* insertion order vars), "Parameter" (with its attributes slots),         *)
(* "ModuleList", "list", "ndarray", "ref", "int", "float", "bool", "None". *)
(* The arrays a Parameter holds live on a heap and are named by their      *)
(* index in it, because the code shares and updates them in place.         *)
(***************************************************************************)
EXTENDS Integers, Sequences, FiniteSets, TLC

\* ------------------------------------------------------------------------
\* Fixed-point arithmetic
\* ------------------------------------------------------------------------

One == 100

FMul(a, b) == (a * b) \div One

FDiv(a, b) == (a * One) \div b

\* The integer square root of x, by bisection: lo * lo <= x < hi * hi.
RECURSIVE IsqrtBetween(_, _, _)
IsqrtBetween(x, lo, hi) ==
    IF hi - lo <= 1 THEN lo
    ELSE LET mid == (lo + hi) \div 2
         IN IF mid * mid <= x THEN IsqrtBetween(x, mid, hi) ELSE IsqrtBetween(x, lo, mid)

FSqrt(a) == IsqrtBetween(a * One, 0, IF a * One < 40000 THEN a * One + 1 ELSE 40000)

RECURSIVE SumSeq(_)
SumSeq(s) == IF Len(s) = 0 THEN 0 ELSE Head(s) + SumSeq(Tail(s))

\* ------------------------------------------------------------------------
\* Python values
\* ------------------------------------------------------------------------

NoneObj == [k |-> "None"]

PyInt(n) == [k |-> "int", v |-> n]

PyFloat(n) == [k |-> "float", v |-> n]

PyBool(b) == [k |-> "bool", v |-> b]

PyList(items) == [k |-> "list", items |-> items]

\* An array no other object refers to, held by value: a sequence over the batch.
NdArray(v) == [k |-> "ndarray", v |-> v]

\* An array on the heap, named by its index.
ArrayRef(r) == [k |-> "ref", ref |-> r]

IsNone(x) == x.k = "None"

IsModule(x) == x.k = "Module"

IsModuleList(x) == x.k = "ModuleList"

IsParameter(x) == x.k = "Parameter"

\* ------------------------------------------------------------------------
\* The heap of Parameter arrays
\* ------------------------------------------------------------------------

\* np.zeros / np.random.randn / a fresh result array: a new cell holding v.
Alloc(h, v) == [h |-> Append(h, v), ref |-> Len(h) + 1]

\* Parameter.__init__: value is the given array, grad a fresh zeros_like.
ParameterInit(h, input_array, is_bias) ==
    LET g == Alloc(h, 0)
    IN [h |-> g.h,
        o |-> [k |-> "Parameter",
               slots |-> [value |-> input_array, grad |-> g.ref, is_bias |-> is_bias]]]

\* Parameter(np.random.randn(...)): the random array, then the Parameter.
RandomParameter(h, sample, is_bias) ==
    LET a == Alloc(h, sample)
    IN ParameterInit(a.h, a.ref, is_bias)

\* ------------------------------------------------------------------------
\* Strings: a string is a sequence of tokens, "." being a token of its own
\* ------------------------------------------------------------------------

Dot == "."

Digits == <<"0", "1", "2", "3", "4", "5", "6", "7", "8", "9">>

\* f'{idx}' for an index 0..9.
IntToStr(i) == <<Digits[i + 1]>>

\* Whether int(s) succeeds (it raises ValueError otherwise).
IsIntLiteral(s) == Len(s) = 1 /\ \E i \in 1..Len(Digits) : Digits[i] = s[1]

\* int(s) for a string int() accepts.
StrToInt(s) == (CHOOSE i \in 1..Len(Digits) : Digits[i] = s[1]) - 1

\* s.split('.')
RECURSIVE Split(_)
Split(s) ==
    IF \A i \in 1..Len(s) : s[i] # Dot
    THEN <<s>>
    ELSE LET i == CHOOSE i \in 1..Len(s) : s[i] = Dot /\ \A j \in 1..(i - 1) : s[j] # Dot
         IN <<SubSeq(s, 1, i - 1)>> \o Split(SubSeq(s, i + 1, Len(s)))

\* '.'.join(parts)
RECURSIVE Join(_)
Join(parts) ==
    IF Len(parts) = 0 THEN <<>>
    ELSE IF Len(parts) = 1 THEN parts[1]
    ELSE parts[1] \o <<Dot>> \o Join(Tail(parts))

\* The attribute a one-token string names ("" names none).
AttrName(s) == IF Len(s) = 1 THEN s[1] ELSE ""

\* ------------------------------------------------------------------------
\* Attributes
\* ------------------------------------------------------------------------

\* Every attribute name of the model, in the order dir() sorts them.
AttrNames ==
    <<"acts", "batch", "beta", "bias", "dropout_rate", "eps", "filter", "foo",
      "gamma", "if_train", "in_channels", "in_features", "kernel_size",
      "last_output", "layers", "momentum", "n_features", "num_features",
      "out_", "out_channels", "out_d", "out_features", "out_h",
      "output_padding", "output_size", "padding", "prev_inp", "running_mean",
      "running_var", "sample_mean", "sample_var", "stride", "weight">>

HasAttr(m, name) == name \in DOMAIN m.attrs

\* dir(self): the instance's attribute names, sorted.
Dir(m) == SelectSeq(AttrNames, LAMBDA n : HasAttr(m, n))

\* setattr(m, name, x) on a Module or a ModuleList.
SetAttr(m, name, x) ==
    IF HasAttr(m, name)
    THEN [m EXCEPT !.attrs = (name :> x) @@ m.attrs]
    ELSE [m EXCEPT !.attrs = (name :> x) @@ m.attrs, !.vars = Append(m.vars, name)]

RECURSIVE MakeAttrs(_, _)
MakeAttrs(m, pairs) ==
    IF Len(pairs) = 0 THEN m
    ELSE MakeAttrs(SetAttr(m, pairs[1][1], pairs[1][2]), Tail(pairs))

\* An instance of class cls whose __init__ assigns the given attributes in order.
NewModule(cls, pairs) ==
    MakeAttrs([k |-> "Module", cls |-> cls, attrs |-> <<>>, vars |-> <<>>], pairs)

\* The classes that inherit Sequential's methods.
SequentialClasses == {"Sequential", "SoftmaxRegression"}

IsSequential(m) == m.k = "Module" /\ m.cls \in SequentialClasses

\* ------------------------------------------------------------------------
\* Constructors (each returns the heap after its allocations and the object)
\* ------------------------------------------------------------------------

PyTuple(v) == [k |-> "tuple", v |-> v]

\* Constructor arguments of the normalization layers: eps = 0.25, momentum = 0.9.
EpsArg == 25

MomentumArg == 90

\* DropoutLayer's dropout_rate = 0.3.
DropoutRateArg == 30

\* Linear(1, 1), its weight and bias drawn as w0 and b0.
LinearInit(h, w0, b0) ==
    LET w == RandomParameter(h, w0, FALSE)
        b == RandomParameter(w.h, b0, TRUE)
    IN [h |-> b.h,
        o |-> NewModule("Linear",
                <<<<"in_features", PyInt(1)>>, <<"out_features", PyInt(1)>>,
                  <<"weight", w.o>>, <<"bias", b.o>>, <<"prev_inp", NoneObj>>>>)]

SoftmaxLayerInit(h) ==
    [h |-> h, o |-> NewModule("SoftmaxLayer", <<<<"last_output", NoneObj>>>>)]

ReLUInit(h) ==
    [h |-> h, o |-> NewModule("ReLU", <<<<"prev_inp", NoneObj>>>>)]

\* Sequential(*args): no argument is inspected.
SequentialInit(h, args) ==
    [h |-> h,
     o |-> NewModule("Sequential",
             <<<<"layers", PyList(args)>>, <<"if_train", PyBool(TRUE)>>>>)]

\* SoftmaxRegression(1, 1): Sequential.__init__(Linear(1, 1), SoftmaxLayer()).
SoftmaxRegressionInit(h, w0, b0) ==
    LET l == LinearInit(h, w0, b0)
        s == SoftmaxLayerInit(l.h)
    IN [h |-> s.h,
        o |-> [SequentialInit(s.h, <<l.o, s.o>>).o EXCEPT !.cls = "SoftmaxRegression"]]

DropoutLayerInit(h) ==
    [h |-> h,
     o |-> NewModule("DropoutLayer",
             <<<<"dropout_rate", PyFloat(DropoutRateArg)>>, <<"filter", NoneObj>>,
               <<"if_train", PyBool(TRUE)>>>>)]

\* Conv2d(1, 1, 1): a 1x1 kernel, stride 1, padding 0.
Conv2dInit(h, w0, b0) ==
    LET w == RandomParameter(h, w0, FALSE)
        b == RandomParameter(w.h, b0, FALSE)
    IN [h |-> b.h,
        o |-> NewModule("Conv2d",
                <<<<"in_channels", PyInt(1)>>, <<"out_channels", PyInt(1)>>,
                  <<"kernel_size", PyTuple(<<1, 1>>)>>, <<"stride", PyInt(1)>>,
                  <<"padding", PyInt(0)>>, <<"weight", w.o>>, <<"bias", b.o>>>>)]

\* ConvTranspose2d(1, 1, 1)
ConvTranspose2dInit(h, w0, b0) ==
    LET w == RandomParameter(h, w0, FALSE)
        b == RandomParameter(w.h, b0, FALSE)
    IN [h |-> b.h,
        o |-> NewModule("ConvTranspose2d",
                <<<<"in_channels", PyInt(1)>>, <<"out_channels", PyInt(1)>>,
                  <<"kernel_size", PyTuple(<<1, 1>>)>>, <<"stride", PyTuple(<<1, 1>>)>>,
                  <<"padding", PyTuple(<<0, 0>>)>>,
                  <<"output_padding", PyTuple(<<0, 0>>)>>,
                  <<"weight", w.o>>, <<"bias", b.o>>>>)]

\* BatchNormLayer(1, eps, momentum): gamma and beta are zeros, the running
\* statistics the bare number 0.
BatchNormLayerInit(h) ==
    LET g == RandomParameter(h, 0, FALSE)
        b == RandomParameter(g.h, 0, FALSE)
    IN [h |-> b.h,
        o |-> NewModule("BatchNormLayer",
                <<<<"eps", PyFloat(EpsArg)>>, <<"momentum", PyFloat(MomentumArg)>>,
                  <<"n_features", PyInt(1)>>, <<"if_train", PyBool(FALSE)>>,
                  <<"gamma", g.o>>, <<"beta", b.o>>,
                  <<"running_mean", PyInt(0)>>, <<"running_var", PyInt(0)>>,
                  <<"out_", NoneObj>>, <<"prev_inp", NoneObj>>,
                  <<"sample_mean", NoneObj>>, <<"sample_var", NoneObj>>>>)]

\* BatchNorm2d(1, eps, momentum): gamma is ones, beta zeros, the running mean
\* zeros and the running variance ones.
BatchNorm2dInit(h) ==
    LET g == RandomParameter(h, One, FALSE)
        b == RandomParameter(g.h, 0, FALSE)
    IN [h |-> b.h,
        o |-> NewModule("BatchNorm2d",
                <<<<"eps", PyFloat(EpsArg)>>, <<"momentum", PyFloat(MomentumArg)>>,
                  <<"num_features", PyInt(1)>>, <<"gamma", g.o>>, <<"beta", b.o>>,
                  <<"running_mean", NdArray(0)>>, <<"running_var", NdArray(One)>>>>)]

FlattenInit(h) ==
    [h |-> h,
     o |-> NewModule("Flatten",
             <<<<"out_d", NoneObj>>, <<"out_h", NoneObj>>,
               <<"out_channels", NoneObj>>, <<"batch", NoneObj>>>>)]

\* MaxPool2d(1): stride defaults to the kernel size.
MaxPool2dInit(h) ==
    [h |-> h,
     o |-> NewModule("MaxPool2d", <<<<"stride", PyInt(1)>>, <<"kernel_size", PyInt(1)>>>>)]

\* AdaptiveAvgPool2d((1, 1))
AdaptiveAvgPool2dInit(h) ==
    [h |-> h,
     o |-> NewModule("AdaptiveAvgPool2d", <<<<"output_size", PyTuple(<<1, 1>>)>>>>)]

\* ------------------------------------------------------------------------
\* ModuleList
\* ------------------------------------------------------------------------

NoExc == ""

\* ModuleList.append
ModuleListAppend(ml, module) ==
    IF ~IsModule(module)
    THEN [o |-> ml, exc |-> "TypeError"]
    ELSE [o |-> [ml EXCEPT !.modules = Append(ml.modules, module)], exc |-> NoExc]

RECURSIVE ModuleListExtend(_, _)
ModuleListExtend(ml, modules) ==
    IF Len(modules) = 0 THEN [o |-> ml, exc |-> NoExc]
    ELSE IF ~IsModule(modules[1]) THEN [o |-> ml, exc |-> "AssertionError"]
    ELSE LET r == ModuleListAppend(ml, modules[1])
         IN IF r.exc # NoExc THEN r ELSE ModuleListExtend(r.o, Tail(modules))

\* ModuleList.__init__(modules): modules is None, a list, or not an iterable.
ModuleListInit(modules) ==
    LET ml == [k |-> "ModuleList", modules |-> <<>>, attrs |-> <<>>, vars |-> <<>>]
    IN IF IsNone(modules) THEN [o |-> ml, exc |-> NoExc]
       ELSE IF modules.k = "list" THEN ModuleListExtend(ml, modules.items)
       ELSE [o |-> ml, exc |-> "TypeError"]

\* ModuleList.__setitem__ (idx a valid non-negative index, else IndexError)
ModuleListSetItem(ml, idx, module) ==
    IF ~IsModule(module) THEN [o |-> ml, exc |-> "TypeError"]
    ELSE IF idx >= Len(ml.modules) THEN [o |-> ml, exc |-> "IndexError"]
    ELSE [o |-> [ml EXCEPT !.modules[idx + 1] = module], exc |-> NoExc]

\* ------------------------------------------------------------------------
\* state_dict: a dict is the sequence of its items, in insertion order
\* ------------------------------------------------------------------------

Item(key, value) == [key |-> key, value |-> value]

\* The items of sd with prefix put before each key.
Prefixed(prefix, sd) == [i \in 1..Len(sd) |-> Item(prefix \o sd[i].key, sd[i].value)]

RECURSIVE state_dict(_)
RECURSIVE ModuleListStateDict(_, _, _)
RECURSIVE ModuleStateDictOver(_, _)
RECURSIVE SequentialStateDictFrom(_, _)

\* Module.state_dict, lines 41-43: the ModuleList's modules from index i on.
ModuleListStateDict(attr_name, modules, i) ==
    IF i >= Len(modules) THEN <<>>
    ELSE Prefixed(<<attr_name, Dot>> \o IntToStr(i) \o <<Dot>>, state_dict(modules[i + 1]))
         \o ModuleListStateDict(attr_name, modules, i + 1)

\* Module.state_dict, lines 36-46: what one attribute adds to the result.
AttrStateDict(attr_name, attr) ==
    IF IsModule(attr) THEN Prefixed(<<attr_name, Dot>>, state_dict(attr))
    ELSE IF IsModuleList(attr) THEN ModuleListStateDict(attr_name, attr.modules, 0)
    ELSE IF IsParameter(attr)
    THEN <<Item(<<attr_name>> \o <<Dot, "value">>, attr.slots.value),
           Item(<<attr_name>> \o <<Dot, "grad">>, attr.slots.grad)>>
    ELSE <<>>

ModuleStateDictOver(m, names) ==
    IF Len(names) = 0 THEN <<>>
    ELSE AttrStateDict(names[1], m.attrs[names[1]]) \o ModuleStateDictOver(m, Tail(names))

\* Module.state_dict
ModuleStateDict(m) == ModuleStateDictOver(m, Dir(m))

SequentialStateDictFrom(layers, idx) ==
    IF idx >= Len(layers) THEN <<>>
    ELSE (IF IsModule(layers[idx + 1])
          THEN Prefixed(<<"layers", Dot>> \o IntToStr(idx) \o <<Dot>>,
                        state_dict(layers[idx + 1]))
          ELSE <<>>)
         \o SequentialStateDictFrom(layers, idx + 1)

\* Sequential.state_dict
SequentialStateDict(m) == SequentialStateDictFrom(m.attrs.layers.items, 0)

state_dict(m) == IF IsSequential(m) THEN SequentialStateDict(m) ELSE ModuleStateDict(m)

\* ------------------------------------------------------------------------
\* load_state_dict: each returns the object as the call leaves it and the
\* exception that ended the call (NoExc: it returned)
\* ------------------------------------------------------------------------

\* The attributes every Module has from its class: getattr finds them.
MethodNames ==
    {"forward", "backward", "state_dict", "load_state_dict", "to", "parameters",
     "train", "eval"}

Raised(o, exc) == [o |-> o, exc |-> exc]

Returned(o) == [o |-> o, exc |-> NoExc]

\* setattr(param, name, value), line 54, param being what getattr returned.
SetAttrOf(param, name, value) ==
    IF IsParameter(param)
    THEN Returned([param EXCEPT !.slots = (name :> value) @@ param.slots])
    ELSE IF IsModule(param) \/ IsModuleList(param)
    THEN Returned(SetAttr(param, name, ArrayRef(value)))
    ELSE Raised(param, "AttributeError")

RECURSIVE load_state_dict(_, _)
RECURSIVE ModuleLoadStateDict(_, _)
RECURSIVE SequentialLoadStateDict(_, _)

\* Module.load_state_dict, lines 51-61: one item of the mapping.
ModuleLoadItem(m, key, value) ==
    LET res == Split(key)
        name == AttrName(res[1])
    IN IF Len(res) = 2
       THEN IF HasAttr(m, name)
            THEN LET r == SetAttrOf(m.attrs[name], AttrName(res[2]), value)
                 IN [o |-> [m EXCEPT !.attrs[name] = r.o], exc |-> r.exc]
            ELSE Raised(m, "AttributeError")
       ELSE IF Len(res) > 2
       THEN IF HasAttr(m, name)
            THEN LET submodule == m.attrs[name]
                 IN IF IsModule(submodule)
                    THEN LET r == load_state_dict(submodule,
                                      <<Item(Join(Tail(res)), value)>>)
                         IN [o |-> [m EXCEPT !.attrs[name] = r.o], exc |-> r.exc]
                    ELSE IF IsModuleList(submodule)
                    THEN IF ~IsIntLiteral(res[2]) THEN Raised(m, "ValueError")
                         ELSE LET ind == StrToInt(res[2])
                              IN IF ind >= Len(submodule.modules)
                                 THEN Raised(m, "IndexError")
                                 ELSE LET r == load_state_dict(
                                                 submodule.modules[ind + 1],
                                                 <<Item(Join(SubSeq(res, 3, Len(res))),
                                                        value)>>)
                                      IN [o |-> [m EXCEPT
                                                   !.attrs[name].modules[ind + 1] = r.o],
                                          exc |-> r.exc]
                    ELSE Returned(m)
            ELSE IF name \in MethodNames THEN Returned(m)
            ELSE Raised(m, "AttributeError")
       ELSE Returned(m)

\* Module.load_state_dict
ModuleLoadStateDict(m, sd) ==
    IF Len(sd) = 0 THEN Returned(m)
    ELSE LET r == ModuleLoadItem(m, sd[1].key, sd[1].value)
         IN IF r.exc # NoExc THEN r ELSE ModuleLoadStateDict(r.o, Tail(sd))

\* BatchNorm2d.load_state_dict, lines 646-653: one item of the mapping.
BatchNorm2dLoadItem(m, key, value) ==
    IF key = <<"gamma", Dot, "value">>
    THEN [m EXCEPT !.attrs.gamma.slots.value = value]
    ELSE IF key = <<"beta", Dot, "value">>
    THEN [m EXCEPT !.attrs.beta.slots.value = value]
    ELSE IF key = <<"running_mean", Dot, "value">>
    THEN SetAttr(m, "running_mean", ArrayRef(value))
    ELSE IF key = <<"running_var", Dot, "value">>
    THEN SetAttr(m, "running_var", ArrayRef(value))
    ELSE m

\* BatchNorm2d.load_state_dict
RECURSIVE BatchNorm2dLoadStateDict(_, _)
BatchNorm2dLoadStateDict(m, sd) ==
    IF Len(sd) = 0 THEN Returned(m)
    ELSE BatchNorm2dLoadStateDict(BatchNorm2dLoadItem(m, sd[1].key, sd[1].value), Tail(sd))

\* Sequential.load_state_dict, lines 228-230: one item of the mapping.
SequentialLoadItem(m, name, value) ==
    LET parts == Split(name)
        layers == m.attrs.layers.items
    IN IF ~IsIntLiteral(parts[1]) THEN Raised(m, "ValueError")
       ELSE LET idx == StrToInt(parts[1])
            IN IF idx >= Len(layers) THEN Raised(m, "IndexError")
               ELSE IF ~IsModule(layers[idx + 1]) THEN Raised(m, "AttributeError")
               ELSE LET r == load_state_dict(layers[idx + 1],
                                  <<Item(Join(Tail(parts)), value)>>)
                    IN [o |-> [m EXCEPT !.attrs.layers.items[idx + 1] = r.o],
                        exc |-> r.exc]

\* Sequential.load_state_dict
SequentialLoadStateDict(m, sd) ==
    IF Len(sd) = 0 THEN Returned(m)
    ELSE LET r == SequentialLoadItem(m, sd[1].key, sd[1].value)
         IN IF r.exc # NoExc THEN r ELSE SequentialLoadStateDict(r.o, Tail(sd))

\* The load_state_dict the object's class resolves to.
load_state_dict(m, sd) ==
    IF IsSequential(m) THEN SequentialLoadStateDict(m, sd)
    ELSE IF m.cls = "BatchNorm2d" THEN BatchNorm2dLoadStateDict(m, sd)
    ELSE ModuleLoadStateDict(m, sd)

\* ------------------------------------------------------------------------
\* Leaf layers on a batch of one-feature samples.  A tensor of shape
\* (N, 1), (N, 1, 1) or (N, 1, 1, 1) is NdArray(v), v the sequence of its N
\* numbers.  forward returns [o, out, exc, rnd, calls]: the layer after the
\* call, the value returned, the exception raised, the random draws left,
\* and (for a Sequential) the calls it made on its layers.
\* backward returns [o, h, out, exc, dparams, calls]: dparams lists the
\* gradient this call computed for each Parameter, keyed like state_dict's
\* grads.
\* ------------------------------------------------------------------------

MapSeq(s, F(_)) == [i \in 1..Len(s) |-> F(s[i])]

\* np.mean over the batch
Mean(xs) == SumSeq(xs) \div Len(xs)

\* np.var over the batch
Var(xs) == LET mu == Mean(xs)
           IN SumSeq(MapSeq(xs, LAMBDA x : FMul(x - mu, x - mu))) \div Len(xs)

\* The array a Parameter attribute's value (or grad) names.
ParamValue(h, m, name) == h[m.attrs[name].slots.value]

ParamGrad(h, m, name) == h[m.attrs[name].slots.grad]

\* The number an attribute holds: a float, an int, or a one-number array.
Num(h, a) == IF a.k = "ref" THEN h[a.ref] ELSE a.v

Fwd(o, out, exc, rnd) ==
    [o |-> o, out |-> out, exc |-> exc, rnd |-> rnd, calls |-> <<>>]

Bwd(o, h, out, exc, dparams) ==
    [o |-> o, h |-> h, out |-> out, exc |-> exc, dparams |-> dparams, calls |-> <<>>]

\* param.grad += delta, in place.
AddToGrad(h, m, name, delta) ==
    [h EXCEPT ![m.attrs[name].slots.grad] = @ + delta]

\* Linear.forward
LinearForward(m, h, inp, rnd) ==
    LET m1 == SetAttr(m, "prev_inp", inp)
    IN IF IsNone(inp) THEN Fwd(m1, NoneObj, "AttributeError", rnd)
       ELSE Fwd(m1,
                NdArray(MapSeq(inp.v, LAMBDA x :
                    FMul(x, ParamValue(h, m, "weight")) + ParamValue(h, m, "bias"))),
                NoExc, rnd)

\* Linear.backward
LinearBackward(m, h, grad) ==
    IF IsNone(grad) THEN Bwd(m, h, NoneObj, "AttributeError", <<>>)
    ELSE IF IsNone(m.attrs.prev_inp) THEN Bwd(m, h, NoneObj, "TypeError", <<>>)
    ELSE LET prev_inp == m.attrs.prev_inp.v
             grad_input == MapSeq(grad.v, LAMBDA g : FMul(g, ParamValue(h, m, "weight")))
             grad_weight == SumSeq([i \in 1..Len(grad.v) |-> FMul(grad.v[i], prev_inp[i])])
             grad_bias == SumSeq(grad.v)
             h1 == AddToGrad(h, m, "weight", grad_weight)
             h2 == AddToGrad(h1, m, "bias", grad_bias)
         IN Bwd(m, h2, NdArray(grad_input), NoExc,
                <<Item(<<"weight", Dot, "grad">>, grad_weight),
                  Item(<<"bias", Dot, "grad">>, grad_bias)>>)

\* SoftmaxLayer.forward: with one feature, exps / sum(exps) is exps / exps.
SoftmaxLayerForward(m, h, inp, rnd) ==
    IF IsNone(inp) THEN Fwd(m, NoneObj, "TypeError", rnd)
    ELSE LET last_output == NdArray(MapSeq(inp.v, LAMBDA x : One))
         IN Fwd(SetAttr(m, "last_output", last_output), last_output, NoExc, rnd)

\* SoftmaxLayer.backward: the Jacobian diag(s) - outer(s, s) of one feature.
SoftmaxLayerBackward(m, h, grad) ==
    IF IsNone(grad) THEN Bwd(m, h, NoneObj, "AttributeError", <<>>)
    ELSE IF IsNone(m.attrs.last_output) THEN Bwd(m, h, NoneObj, "TypeError", <<>>)
    ELSE LET s == m.attrs.last_output.v
         IN Bwd(m, h,
                NdArray([i \in 1..Len(grad.v) |->
                           FMul(s[i] - FMul(s[i], s[i]), grad.v[i])]),
                NoExc, <<>>)

\* ReLU.forward
ReLUForward(m, h, inp, rnd) ==
    LET m1 == SetAttr(m, "prev_inp", inp)
    IN IF IsNone(inp) THEN Fwd(m1, NoneObj, "TypeError", rnd)
       ELSE Fwd(m1, NdArray(MapSeq(inp.v, LAMBDA x : IF x > 0 THEN x ELSE 0)), NoExc, rnd)

\* ReLU.backward
ReLUBackward(m, h, grad) ==
    IF IsNone(m.attrs.prev_inp) \/ IsNone(grad) THEN Bwd(m, h, NoneObj, "TypeError", <<>>)
    ELSE Bwd(m, h,
             NdArray([i \in 1..Len(grad.v) |->
                        IF m.attrs.prev_inp.v[i] >= 0 THEN grad.v[i] ELSE 0]),
             NoExc, <<>>)

\* DropoutLayer.forward: the mask is the next draw of np.random.binomial.
DropoutLayerForward(m, h, inp, train, rnd) ==
    LET m1 == SetAttr(m, "if_train", PyBool(train))
    IN IF train
       THEN IF IsNone(inp) THEN Fwd(m1, NoneObj, "AttributeError", rnd)
            ELSE Fwd(SetAttr(m1, "filter", NdArray(Head(rnd))),
                     NdArray([i \in 1..Len(inp.v) |-> inp.v[i] * Head(rnd)[i]]),
                     NoExc, Tail(rnd))
       ELSE Fwd(m1, inp, NoExc, rnd)

\* DropoutLayer.backward
DropoutLayerBackward(m, h, grad) ==
    IF m.attrs.if_train.v
    THEN IF IsNone(m.attrs.filter) \/ IsNone(grad)
         THEN Bwd(m, h, NoneObj, "TypeError", <<>>)
         ELSE Bwd(m, h,
                  NdArray([i \in 1..Len(grad.v) |-> grad.v[i] * m.attrs.filter.v[i]]),
                  NoExc, <<>>)
    ELSE Bwd(m, h, grad, NoExc, <<>>)

\* Flatten.forward: (N, 1, 1, 1) -> (N, 1, 1)
FlattenForward(m, h, inp, rnd) ==
    IF IsNone(inp) THEN Fwd(m, NoneObj, "AttributeError", rnd)
    ELSE Fwd(MakeAttrs(m, <<<<"batch", PyInt(Len(inp.v))>>, <<"out_channels", PyInt(1)>>,
                           <<"out_h", PyInt(1)>>, <<"out_d", PyInt(1)>>>>),
             inp, NoExc, rnd)

\* Flatten.backward
FlattenBackward(m, h, grad) ==
    IF IsNone(grad) THEN Bwd(m, h, NoneObj, "AttributeError", <<>>)
    ELSE IF IsNone(m.attrs.batch) THEN Bwd(m, h, NoneObj, "TypeError", <<>>)
    ELSE IF m.attrs.batch.v # Len(grad.v) THEN Bwd(m, h, NoneObj, "ValueError", <<>>)
    ELSE Bwd(m, h, grad, NoExc, <<>>)

\* Module.forward and Module.backward: the abstract methods' bodies are pass.
ModuleForward(m, h, inp, rnd) == Fwd(m, NoneObj, NoExc, rnd)

ModuleBackward(m, h, grad) == Bwd(m, h, NoneObj, NoExc, <<>>)

\* ------------------------------------------------------------------------
\* n-dimensional arrays: a shape and the elements in C (row-major) order.
\* Indices are 0-based, as in the code.
\* ------------------------------------------------------------------------

Arr(shape, data) == [shape |-> shape, data |-> data]

RECURSIVE Prod(_)
Prod(s) == IF Len(s) = 0 THEN 1 ELSE Head(s) * Prod(Tail(s))

\* The offset of the element at idx in an array of the given shape.
RECURSIVE Ravel(_, _)
Ravel(idx, shape) ==
    IF Len(idx) = 0 THEN 0
    ELSE idx[1] * Prod(Tail(shape)) + Ravel(Tail(idx), Tail(shape))

\* The index of the element at offset p.
RECURSIVE Unravel(_, _)
Unravel(p, shape) ==
    IF Len(shape) = 0 THEN <<>>
    ELSE <<p \div Prod(Tail(shape))>> \o Unravel(p % Prod(Tail(shape)), Tail(shape))

\* a[idx]
At(a, idx) == a.data[Ravel(idx, a.shape) + 1]

\* The array of the given shape whose element at idx is F(idx).
FromFn(shape, F(_)) ==
    Arr(shape, [p \in 1..Prod(shape) |-> F(Unravel(p - 1, shape))] \o <<>>)

\* a.transpose(axes)
Transpose(a, axes) ==
    FromFn([n \in 1..Len(axes) |-> a.shape[axes[n] + 1]],
           LAMBDA idx : At(a, [d \in 1..Len(axes) |->
                                 idx[CHOOSE n \in 1..Len(axes) : axes[n] = d - 1]]))

\* a.reshape(shape), at most one side of shape being -1.
Reshape(a, shape) ==
    LET known == Prod(SelectSeq(shape, LAMBDA d : d # -1))
    IN Arr([n \in 1..Len(shape) |->
              IF shape[n] = -1 THEN Prod(a.shape) \div known ELSE shape[n]],
           a.data)

\* a @ b for two matrices
MatMul(a, b) ==
    FromFn(<<a.shape[1], b.shape[2]>>,
           LAMBDA idx : SumSeq([t \in 1..a.shape[2] |->
                                  FMul(At(a, <<idx[1], t - 1>>), At(b, <<t - 1, idx[2]>>))]))

\* np.arange(n)
Arange(n) == [t \in 1..n |-> t - 1]

\* np.repeat(s, n)
Repeat(s, n) == [t \in 1..(Len(s) * n) |-> s[((t - 1) \div n) + 1]]

\* np.tile(s, n)
Tile(s, n) == [t \in 1..(Len(s) * n) |-> s[((t - 1) % Len(s)) + 1]]

\* np.pad(x, ((0, 0), (0, 0), (p_h, p_h), (p_w, p_w)), mode='constant')
Pad(x, p_h, p_w) ==
    FromFn(<<x.shape[1], x.shape[2], x.shape[3] + 2 * p_h, x.shape[4] + 2 * p_w>>,
           LAMBDA idx :
             IF /\ idx[3] >= p_h /\ idx[3] < p_h + x.shape[3]
                /\ idx[4] >= p_w /\ idx[4] < p_w + x.shape[4]
             THEN At(x, <<idx[1], idx[2], idx[3] - p_h, idx[4] - p_w>>)
             ELSE 0)

\* ------------------------------------------------------------------------
\* The patch-transform kernel
\* ------------------------------------------------------------------------

\* Patch indices whose rows run channel by channel within each field position.
get_im2col_indices_channel_minor(x_shape, field_height, field_width, padding, stride) ==
    LET C == x_shape[2]
        H == x_shape[3]
        W == x_shape[4]
        pad_h == padding[1]
        pad_w == padding[2]
        stride_h == stride[1]
        stride_w == stride[2]
        out_height == (H + 2 * pad_h - field_height) \div stride_h + 1
        out_width == (W + 2 * pad_w - field_width) \div stride_w + 1
        i0 == Tile(Repeat(Arange(field_height), field_width), C)
        i1 == MapSeq(Repeat(Arange(out_height), out_width), LAMBDA v : stride_h * v)
        j0 == Tile(Arange(field_width), field_height * C)
        j1 == MapSeq(Tile(Arange(out_width), out_height), LAMBDA v : stride_w * v)
    IN [k |-> Arr(<<C * field_height * field_width, 1>>,
                  Tile(Arange(C), field_height * field_width)),
        i |-> FromFn(<<Len(i0), Len(i1)>>, LAMBDA idx : i0[idx[1] + 1] + i1[idx[2] + 1]),
        j |-> FromFn(<<Len(j0), Len(j1)>>, LAMBDA idx : j0[idx[1] + 1] + j1[idx[2] + 1])]

\* get_im2col_indices, lines 313-335
get_im2col_indices(x_shape, field_height, field_width, padding, stride) ==
    LET C == x_shape[2]
        H == x_shape[3]
        W == x_shape[4]
        pad_h == padding[1]
        pad_w == padding[2]
        stride_h == stride[1]
        stride_w == stride[2]
        out_height == (H + 2 * pad_h - field_height) \div stride_h + 1
        out_width == (W + 2 * pad_w - field_width) \div stride_w + 1
        i0 == Tile(Repeat(Arange(field_height), field_width), C)
        i1 == MapSeq(Repeat(Arange(out_height), out_width), LAMBDA v : stride_h * v)
        j0 == Tile(Arange(field_width), field_height * C)
        j1 == MapSeq(Tile(Arange(out_width), out_height), LAMBDA v : stride_w * v)
    IN [k |-> Arr(<<C * field_height * field_width, 1>>,
                  Repeat(Arange(C), field_height * field_width)),
        i |-> FromFn(<<Len(i0), Len(i1)>>, LAMBDA idx : i0[idx[1] + 1] + i1[idx[2] + 1]),
        j |-> FromFn(<<Len(j0), Len(j1)>>, LAMBDA idx : j0[idx[1] + 1] + j1[idx[2] + 1])]

\* isinstance(v, int): an int argument becomes the pair (v, v).
AsPair(v) == IF v.k = "int" THEN <<v.v, v.v>> ELSE v.v

\* A patch transform whose columns run image by image.
im2col_batch_major(x, field_height, field_width, padding, stride) ==
    LET pd == AsPair(padding)
        st == AsPair(stride)
        x_padded == Pad(x, pd[1], pd[2])
        ind == get_im2col_indices(x.shape, field_height, field_width, pd, st)
        \* x_padded[:, k, i, j]: k (R, 1) broadcast against i and j (R, L)
        cols == FromFn(<<x.shape[1], ind.i.shape[1], ind.i.shape[2]>>,
                       LAMBDA idx : At(x_padded, <<idx[1], At(ind.k, <<idx[2], 0>>),
                                                   At(ind.i, <<idx[2], idx[3]>>),
                                                   At(ind.j, <<idx[2], idx[3]>>)>>))
        C == x.shape[2]
    IN Reshape(Transpose(cols, <<1, 0, 2>>), <<field_height * field_width * C, -1>>)

\* im2col_indices, lines 338-358
im2col_indices(x, field_height, field_width, padding, stride) ==
    LET pd == AsPair(padding)
        st == AsPair(stride)
        x_padded == Pad(x, pd[1], pd[2])
        ind == get_im2col_indices(x.shape, field_height, field_width, pd, st)
        \* x_padded[:, k, i, j]: k (R, 1) broadcast against i and j (R, L)
        cols == FromFn(<<x.shape[1], ind.i.shape[1], ind.i.shape[2]>>,
                       LAMBDA idx : At(x_padded, <<idx[1], At(ind.k, <<idx[2], 0>>),
                                                   At(ind.i, <<idx[2], idx[3]>>),
                                                   At(ind.j, <<idx[2], idx[3]>>)>>))
        C == x.shape[2]
    IN Reshape(Transpose(cols, <<1, 2, 0>>), <<field_height * field_width * C, -1>>)

\* Conv2d.forward, lines 413-432, on the layer's weight, bias, stride and padding.
Conv2dForwardArr(weight, bias, stride, padding, inp) ==
    LET n_filters == weight.shape[1]
        h_filter == weight.shape[3]
        w_filter == weight.shape[4]
        n_x == inp.shape[1]
        h_x == inp.shape[3]
        w_x == inp.shape[4]
        h_out == (h_x - h_filter + 2 * padding) \div stride + 1
        w_out == (w_x - w_filter + 2 * padding) \div stride + 1
        x_col == im2col_indices(inp, h_filter, w_filter, PyInt(padding), PyInt(stride))
        w_col == Transpose(Reshape(weight, <<n_filters, -1>>), <<1, 0>>)
        prod == MatMul(Transpose(w_col, <<1, 0>>), x_col)
        b == Reshape(bias, <<-1, 1>>)
        out == FromFn(prod.shape, LAMBDA idx : At(prod, idx) + At(b, <<idx[1], 0>>))
    IN Transpose(Reshape(out, <<n_filters, h_out, w_out, n_x>>), <<3, 0, 1, 2>>)

\* A slice bound b of a side of length n: a negative bound counts from the end.
SliceBound(b, n) ==
    IF b < 0 THEN (IF b + n < 0 THEN 0 ELSE b + n) ELSE (IF b > n THEN n ELSE b)

\* The length of a[start:stop] on a side of length n.
SliceLen(start, stop, n) ==
    IF SliceBound(stop, n) > SliceBound(start, n)
    THEN SliceBound(stop, n) - SliceBound(start, n)
    ELSE 0

col2im_indices(cols, x_shape, field_height, field_width, padding, stride) ==
    LET N == x_shape[1]
        C == x_shape[2]
        H == x_shape[3]
        W == x_shape[4]
        pad_h == padding[1]
        pad_w == padding[2]
        H_padded == H + 2 * pad_h
        W_padded == W + 2 * pad_w
        ind == get_im2col_indices(x_shape, field_height, field_width, padding, stride)
        cols_reshaped ==
            Transpose(Reshape(cols, <<C * field_height * field_width, -1, N>>), <<2, 0, 1>>)
        \* np.add.at(x_padded, (slice(None), k, i, j), cols_reshaped)
        x_padded ==
            FromFn(<<N, C, H_padded, W_padded>>,
                   LAMBDA idx :
                     SumSeq([q \in 1..Prod(ind.i.shape) |->
                        LET rl == Unravel(q - 1, ind.i.shape)
                        IN IF /\ At(ind.k, <<rl[1], 0>>) = idx[2]
                              /\ At(ind.i, rl) = idx[3]
                              /\ At(ind.j, rl) = idx[4]
                           THEN At(cols_reshaped, <<idx[1], rl[1], rl[2]>>)
                           ELSE 0]))
    IN IF pad_h # 0 \/ pad_w # 0
       THEN \* x_padded[:, :, pad_h:-pad_h, pad_w:-pad_w]
            FromFn(<<N, C, SliceLen(pad_h, -pad_h, H_padded),
                     SliceLen(pad_w, -pad_w, W_padded)>>,
                   LAMBDA idx : At(x_padded, <<idx[1], idx[2], idx[3] + pad_h,
                                               idx[4] + pad_w>>))
       ELSE x_padded

\* ConvTranspose2d.forward, lines 486-500, on the layer's attributes.
ConvTranspose2dForwardArr(weight, bias, in_channels, out_channels, stride, padding, output_padding, inp) ==
    LET n == inp.shape[1]
        c == inp.shape[2]
        h == inp.shape[3]
        w == inp.shape[4]
        d_w == weight.shape[3]
        d_h == weight.shape[4]
        out_h == (h - 1) * stride[1] - 2 * padding[1] + d_h + output_padding[1]
        out_w == (w - 1) * stride[2] - 2 * padding[2] + d_w + output_padding[2]
        inp_reshaped == Reshape(Transpose(inp, <<1, 0, 2, 3>>), <<c, -1>>)
        weights_reshaped == Transpose(Reshape(weight, <<in_channels, -1>>), <<1, 0>>)
        out_cols == MatMul(weights_reshaped, inp_reshaped)
        out == col2im_indices(out_cols, <<n, out_channels, out_h, out_w>>, d_h, d_w,
                              padding, stride)
    IN FromFn(out.shape, LAMBDA idx : At(out, idx) + bias.data[idx[2] + 1])

\* The greatest element of a non-empty sequence.
MaxOf(s) == CHOOSE v \in {s[t] : t \in 1..Len(s)} : \A t \in 1..Len(s) : s[t] <= v

\* The elements of inp[n, c, h0:h1, w0:w1], row by row.
Patch(inp, n, c, h0, h1, w0, w1) ==
    [t \in 1..((h1 - h0) * (w1 - w0)) |->
        At(inp, <<n, c, h0 + ((t - 1) \div (w1 - w0)), w0 + ((t - 1) % (w1 - w0))>>)]

\* MaxPool2d.forward
MaxPool2dForwardArr(kernel_size, stride, inp) ==
    LET H == inp.shape[3]
        W == inp.shape[4]
        out_height == (H - kernel_size) \div stride + 1
        out_width == (W - kernel_size) \div stride + 1
    IN FromFn(<<inp.shape[1], inp.shape[2], out_height, out_width>>,
              LAMBDA idx :
                MaxOf(Patch(inp, idx[1], idx[2],
                            idx[3] * stride, idx[3] * stride + kernel_size,
                            idx[4] * stride, idx[4] * stride + kernel_size)))

Min2(a, b) == IF a < b THEN a ELSE b

Max2(a, b) == IF a > b THEN a ELSE b

\* int(np.ceil(a / b)) for b > 0
CeilDiv(a, b) == -((-a) \div b)

\* AdaptiveAvgPool2d.forward: region i spans int(i * H / oh) to
\* ceil((i + 1) * H / oh), at least one pixel, at most the input.
AdaptiveAvgPool2dForwardArr(output_size, inp) ==
    LET height == inp.shape[3]
        width == inp.shape[4]
        output_height == output_size[1]
        output_width == output_size[2]
        h_start(i) == (i * height) \div output_height
        h_end(i) == Min2(Max2(CeilDiv((i + 1) * height, output_height), h_start(i) + 1),
                         height)
        w_start(j) == (j * width) \div output_width
        w_end(j) == Min2(Max2(CeilDiv((j + 1) * width, output_width), w_start(j) + 1),
                         width)
    IN FromFn(<<inp.shape[1], inp.shape[2], output_height, output_width>>,
              LAMBDA idx :
                LET patch == Patch(inp, idx[1], idx[2], h_start(idx[3]), h_end(idx[3]),
                                   w_start(idx[4]), w_end(idx[4]))
                IN SumSeq(patch) \div Len(patch))

\* ------------------------------------------------------------------------
\* The convolution and pooling layers on a batch of 1x1 one-channel maps
\* ------------------------------------------------------------------------

\* The (N, 1, 1, 1) array of a batch, and the (1, 1, 1, 1) and (1,) arrays
\* of a Parameter's number.
Batch4(v) == Arr(<<Len(v), 1, 1, 1>>, v)

Weight4(w) == Arr(<<1, 1, 1, 1>>, <<w>>)

Bias1(b) == Arr(<<1>>, <<b>>)

\* Conv2d.forward
Conv2dForward(m, h, inp, rnd) ==
    IF IsNone(inp) THEN Fwd(m, NoneObj, "AttributeError", rnd)
    ELSE Fwd(m,
             NdArray(Conv2dForwardArr(Weight4(ParamValue(h, m, "weight")),
                                      Bias1(ParamValue(h, m, "bias")),
                                      m.attrs.stride.v, m.attrs.padding.v,
                                      Batch4(inp.v)).data),
             NoExc, rnd)

\* A backward that hands its argument back instead of raising.
Conv2dBackwardReturning(m, h, dout) == Bwd(m, h, dout, NoExc, <<>>)

\* Conv2d.backward: raise NotImplementedError, the rest is never reached.
Conv2dBackward(m, h, dout) == Bwd(m, h, NoneObj, "NotImplementedError", <<>>)

\* ConvTranspose2d.forward
ConvTranspose2dForward(m, h, inp, rnd) ==
    IF IsNone(inp) THEN Fwd(m, NoneObj, "AttributeError", rnd)
    ELSE Fwd(m,
             NdArray(ConvTranspose2dForwardArr(
                         Weight4(ParamValue(h, m, "weight")),
                         Bias1(ParamValue(h, m, "bias")),
                         m.attrs.in_channels.v, m.attrs.out_channels.v,
                         m.attrs.stride.v, m.attrs.padding.v,
                         m.attrs.output_padding.v, Batch4(inp.v)).data),
             NoExc, rnd)

\* ConvTranspose2d.backward
ConvTranspose2dBackward(m, h, dout) == Bwd(m, h, NoneObj, "NotImplementedError", <<>>)

\* MaxPool2d.forward
MaxPool2dForward(m, h, inp, rnd) ==
    IF IsNone(inp) THEN Fwd(m, NoneObj, "AttributeError", rnd)
    ELSE Fwd(m,
             NdArray(MaxPool2dForwardArr(m.attrs.kernel_size.v, m.attrs.stride.v,
                                         Batch4(inp.v)).data),
             NoExc, rnd)

\* MaxPool2d.backward
MaxPool2dBackward(m, h, grad) == Bwd(m, h, NoneObj, "NotImplementedError", <<>>)

\* AdaptiveAvgPool2d.forward
AdaptiveAvgPool2dForward(m, h, inp, rnd) ==
    IF IsNone(inp) THEN Fwd(m, NoneObj, "AttributeError", rnd)
    ELSE Fwd(m,
             NdArray(AdaptiveAvgPool2dForwardArr(m.attrs.output_size.v,
                                                 Batch4(inp.v)).data),
             NoExc, rnd)

\* AdaptiveAvgPool2d.backward
AdaptiveAvgPool2dBackward(m, h, grad) == Bwd(m, h, NoneObj, "NotImplementedError", <<>>)

\* ------------------------------------------------------------------------
\* Normalization
\* ------------------------------------------------------------------------

\* momentum * running + (1 - momentum) * batch_stat
RunningUpdate(momentum, running, batch_stat) ==
    FMul(momentum, running) + FMul(One - momentum, batch_stat)

\* (x - mean) / sqrt(var + eps), elementwise
Normalize(xs, mean, var, eps) ==
    MapSeq(xs, LAMBDA x : FDiv(x - mean, FSqrt(var + eps)))

\* BatchNormLayer.forward
BatchNormLayerForward(m, h, inp0, train, rnd) ==
    IF IsNone(inp0) THEN Fwd(m, NoneObj, "AttributeError", rnd)
    ELSE
    LET inp == inp0.v
        eps == m.attrs.eps.v
        momentum == m.attrs.momentum.v
        gamma == ParamValue(h, m, "gamma")
        beta == ParamValue(h, m, "beta")
        m1 == SetAttr(m, "prev_inp", NdArray(inp))
    IN IF train
       THEN LET sample_mean == Mean(inp)
                sample_var == Var(inp)
                out_ == Normalize(inp, sample_mean, sample_var, eps)
                running_mean == RunningUpdate(momentum, m.attrs.running_mean.v, sample_mean)
                running_var == RunningUpdate(momentum, m.attrs.running_var.v, sample_var)
            IN Fwd(MakeAttrs(m1, <<<<"sample_mean", NdArray(sample_mean)>>,
                                   <<"sample_var", NdArray(sample_var)>>,
                                   <<"out_", NdArray(out_)>>,
                                   <<"running_mean", NdArray(running_mean)>>,
                                   <<"running_var", NdArray(running_var)>>>>),
                   NdArray(MapSeq(out_, LAMBDA o : FMul(gamma, o) + beta)),
                   NoExc, rnd)
       ELSE LET scale == FDiv(gamma, FSqrt(m.attrs.running_var.v + eps))
            IN Fwd(m1,
                   NdArray(MapSeq(inp, LAMBDA x :
                       FMul(x, scale) + (beta - FMul(m.attrs.running_mean.v, scale)))),
                   NoExc, rnd)

\* param.grad = a fresh array holding v
SetGrad(h, m, name, v) ==
    LET a == Alloc(h, v)
    IN [h |-> a.h, o |-> [m EXCEPT !.attrs[name].slots.grad = a.ref]]

\* BatchNormLayer.backward
BatchNormLayerBackward(m, h, grad0) ==
    IF IsNone(grad0) \/ IsNone(m.attrs.prev_inp)
    THEN Bwd(m, h, NoneObj, "AttributeError", <<>>)
    ELSE IF IsNone(m.attrs.sample_mean) THEN Bwd(m, h, NoneObj, "TypeError", <<>>)
    ELSE
    LET grad == grad0.v
        prev_inp == m.attrs.prev_inp.v
        sample_mean == m.attrs.sample_mean.v
        v == m.attrs.sample_var.v + m.attrs.eps.v
        N == Len(prev_inp)
        B == 1..Len(grad)
        dout_ == [i \in B |-> FMul(ParamValue(h, m, "gamma"), grad[i])]
        \* (sample_var + eps) ** -1.5
        pw == FDiv(One, FMul(v, FSqrt(v)))
        dvar == SumSeq([i \in B |->
                  FMul(FMul(FMul(dout_[i], prev_inp[i] - sample_mean), -(One \div 2)), pw)])
        dx_ == FDiv(One, FSqrt(v))
        dvar_ == [i \in B |-> (2 * (prev_inp[i] - sample_mean)) \div N]
        di == [i \in B |-> FMul(dout_[i], dx_) + FMul(dvar, dvar_[i])]
        dmean == -SumSeq(di)
        dmean_ == One \div N
        dx == [i \in B |-> di[i] + FMul(dmean, dmean_)]
        gamma_grad == SumSeq([i \in B |-> FMul(grad[i], m.attrs.out_.v[i])])
        beta_grad == SumSeq(grad)
        g == SetGrad(h, m, "gamma", gamma_grad)
        b == SetGrad(g.h, g.o, "beta", beta_grad)
    IN Bwd(b.o, b.h, NdArray(dx), NoExc,
           <<Item(<<"gamma", Dot, "grad">>, gamma_grad),
             Item(<<"beta", Dot, "grad">>, beta_grad)>>)

\* BatchNorm2d.forward
BatchNorm2dForward(m, h, inp, train, rnd) ==
    IF train /\ IsNone(inp) THEN Fwd(m, NoneObj, "TypeError", rnd)
    ELSE
    LET eps == m.attrs.eps.v
        momentum == m.attrs.momentum.v
        m1 == IF train
              THEN MakeAttrs(m,
                     <<<<"sample_mean", NdArray(Mean(inp.v))>>,
                       <<"sample_var", NdArray(Var(inp.v))>>,
                       <<"running_mean",
                         NdArray(RunningUpdate(momentum, Num(h, m.attrs.running_mean),
                                               Mean(inp.v)))>>,
                       <<"running_var",
                         NdArray(RunningUpdate(momentum, Num(h, m.attrs.running_var),
                                               Var(inp.v)))>>>>)
              ELSE MakeAttrs(m, <<<<"sample_mean", m.attrs.running_mean>>,
                                  <<"sample_var", m.attrs.running_var>>>>)
    IN IF IsNone(inp) THEN Fwd(m1, NoneObj, "TypeError", rnd)
       ELSE LET out_ == Normalize(inp.v, Num(h, m1.attrs.sample_mean),
                                  Num(h, m1.attrs.sample_var), eps)
            IN Fwd(SetAttr(m1, "out_", NdArray(out_)),
                   NdArray(MapSeq(out_, LAMBDA o :
                       FMul(ParamValue(h, m, "gamma"), o) + ParamValue(h, m, "beta"))),
                   NoExc, rnd)

\* BatchNorm2d.backward
BatchNorm2dBackward(m, h, grad0) ==
    IF IsNone(grad0) \/ ~HasAttr(m, "out_")
    THEN Bwd(m, h, NoneObj, "AttributeError", <<>>)
    ELSE
    LET grad == grad0.v
        out_ == m.attrs.out_.v
        B == 1..Len(grad)
        grad_gamma == SumSeq([i \in B |-> FMul(grad[i], out_[i])])
        grad_beta == SumSeq(grad)
        sd == FSqrt(Num(h, m.attrs.sample_var) + m.attrs.eps.v)
        grad_out == [i \in B |-> FDiv(FMul(grad[i], ParamValue(h, m, "gamma")), sd)]
        mean_grad_out == Mean(grad_out)
        mean_grad_out_inp == Mean([i \in B |-> FMul(grad_out[i], out_[i])])
        dx == [i \in B |->
                 FDiv(grad_out[i] - mean_grad_out - FMul(out_[i], mean_grad_out_inp), sd)]
        g == SetGrad(h, m, "gamma", grad_gamma)
        b == SetGrad(g.h, g.o, "beta", grad_beta)
    IN Bwd(b.o, b.h, NdArray(dx), NoExc,
           <<Item(<<"gamma", Dot, "grad">>, grad_gamma),
             Item(<<"beta", Dot, "grad">>, grad_beta)>>)

\* ------------------------------------------------------------------------
\* Calls: layer(inp) and layer(inp, train=flag); Sequential
\* ------------------------------------------------------------------------

\* How a call gives the train keyword: not at all, or as True or False.
Omitted == "omitted"

KwOf(flag) == IF flag THEN "True" ELSE "False"

\* The classes whose forward has a train parameter (its default is True).
TakesTrain == {"DropoutLayer", "BatchNormLayer", "BatchNorm2d"}

\* One entry of the record of the calls a Sequential made on its layers.
Call(idx, train, arg, res) ==
    [layer |-> idx, train |-> train, arg |-> arg, ret |-> res.out, exc |-> res.exc]

RECURSIVE LayerForward(_, _, _, _, _)
RECURSIVE LayerBackward(_, _, _)
RECURSIVE SequentialForwardFrom(_, _, _, _, _, _)
RECURSIVE SequentialBackwardFrom(_, _, _, _, _, _)

\* Sequential.forward, lines 206-211: the layers from index idx on.
SequentialForwardFrom(m, h, inp, rnd, idx, calls) ==
    LET layers == m.attrs.layers.items
    IN IF idx >= Len(layers) THEN [Fwd(m, inp, NoExc, rnd) EXCEPT !.calls = calls]
       ELSE LET layer == layers[idx + 1]
                train == IF IsModule(layer) /\ layer.cls \in {"DropoutLayer", "BatchNormLayer"}
                         THEN KwOf(m.attrs.if_train.v)
                         ELSE Omitted
                r == IF IsModule(layer)
                     THEN LayerForward(layer, h, inp, train, rnd)
                     ELSE Fwd(layer, NoneObj, "TypeError", rnd)
                m1 == [m EXCEPT !.attrs.layers.items[idx + 1] = r.o]
                calls1 == Append(calls, Call(idx, train, inp, r))
            IN IF r.exc # NoExc
               THEN [Fwd(m1, NoneObj, r.exc, r.rnd) EXCEPT !.calls = calls1]
               ELSE SequentialForwardFrom(m1, h, r.out, r.rnd, idx + 1, calls1)

\* Sequential.forward
SequentialForward(m, h, inp, rnd) == SequentialForwardFrom(m, h, inp, rnd, 0, <<>>)

\* Sequential.backward, lines 214-216: the layers from index idx down.
SequentialBackwardFrom(m, h, grad, idx, dparams, calls) ==
    LET layers == m.attrs.layers.items
    IN IF idx < 0 THEN [Bwd(m, h, grad, NoExc, dparams) EXCEPT !.calls = calls]
       ELSE LET layer == layers[idx + 1]
                r == IF IsModule(layer)
                     THEN LayerBackward(layer, h, grad)
                     ELSE Bwd(layer, h, NoneObj, "AttributeError", <<>>)
                m1 == [m EXCEPT !.attrs.layers.items[idx + 1] = r.o]
                dparams1 == dparams
                            \o Prefixed(<<"layers", Dot>> \o IntToStr(idx) \o <<Dot>>,
                                        r.dparams)
                calls1 == Append(calls, Call(idx, Omitted, grad, r))
            IN IF r.exc # NoExc
               THEN [Bwd(m1, r.h, NoneObj, r.exc, dparams1) EXCEPT !.calls = calls1]
               ELSE SequentialBackwardFrom(m1, r.h, r.out, idx - 1, dparams1, calls1)

\* A backward that starts below the last layer.
SequentialBackwardSkippingLast(m, h, grad) ==
    SequentialBackwardFrom(m, h, grad, Len(m.attrs.layers.items) - 2, <<>>, <<>>)

\* Sequential.backward
SequentialBackward(m, h, grad) ==
    SequentialBackwardFrom(m, h, grad, Len(m.attrs.layers.items) - 1, <<>>, <<>>)

\* layer(inp) or layer(inp, train=...): Module.__call__, then the class's forward.
LayerForward(m, h, inp, train, rnd) ==
    IF train # Omitted /\ m.cls \notin TakesTrain
    THEN Fwd(m, NoneObj, "TypeError", rnd)
    ELSE CASE m.cls = "Linear" -> LinearForward(m, h, inp, rnd)
           [] m.cls = "SoftmaxLayer" -> SoftmaxLayerForward(m, h, inp, rnd)
           [] m.cls = "ReLU" -> ReLUForward(m, h, inp, rnd)
           [] m.cls = "DropoutLayer" ->
                DropoutLayerForward(m, h, inp, train # "False", rnd)
           [] m.cls = "BatchNormLayer" ->
                BatchNormLayerForward(m, h, inp, train # "False", rnd)
           [] m.cls = "BatchNorm2d" ->
                BatchNorm2dForward(m, h, inp, train # "False", rnd)
           [] m.cls = "Conv2d" -> Conv2dForward(m, h, inp, rnd)
           [] m.cls = "ConvTranspose2d" -> ConvTranspose2dForward(m, h, inp, rnd)
           [] m.cls = "MaxPool2d" -> MaxPool2dForward(m, h, inp, rnd)
           [] m.cls = "AdaptiveAvgPool2d" -> AdaptiveAvgPool2dForward(m, h, inp, rnd)
           [] m.cls = "Flatten" -> FlattenForward(m, h, inp, rnd)
           [] m.cls \in SequentialClasses -> SequentialForward(m, h, inp, rnd)
           [] OTHER -> ModuleForward(m, h, inp, rnd)

\* layer.backward(grad)
LayerBackward(m, h, grad) ==
    CASE m.cls = "Linear" -> LinearBackward(m, h, grad)
      [] m.cls = "SoftmaxLayer" -> SoftmaxLayerBackward(m, h, grad)
      [] m.cls = "ReLU" -> ReLUBackward(m, h, grad)
      [] m.cls = "DropoutLayer" -> DropoutLayerBackward(m, h, grad)
      [] m.cls = "BatchNormLayer" -> BatchNormLayerBackward(m, h, grad)
      [] m.cls = "BatchNorm2d" -> BatchNorm2dBackward(m, h, grad)
      [] m.cls = "Conv2d" -> Conv2dBackward(m, h, grad)
      [] m.cls = "ConvTranspose2d" -> ConvTranspose2dBackward(m, h, grad)
      [] m.cls = "MaxPool2d" -> MaxPool2dBackward(m, h, grad)
      [] m.cls = "AdaptiveAvgPool2d" -> AdaptiveAvgPool2dBackward(m, h, grad)
      [] m.cls = "Flatten" -> FlattenBackward(m, h, grad)
      [] m.cls \in SequentialClasses -> SequentialBackward(m, h, grad)
      [] OTHER -> ModuleBackward(m, h, grad)

\* Sequential.train and Sequential.eval
SequentialTrain(m) == SetAttr(m, "if_train", PyBool(TRUE))

SequentialEval(m) == SetAttr(m, "if_train", PyBool(FALSE))

\* Sequential.parameters, lines 200-202: the Parameters among vars(layer),
\* each named by the path of its attribute.
LayerParameters(idx, layer) ==
    LET names == SelectSeq(layer.vars, LAMBDA n : IsParameter(layer.attrs[n]))
    IN [t \in 1..Len(names) |-> <<"layers", Dot>> \o IntToStr(idx) \o <<Dot, names[t]>>]

RECURSIVE SequentialParametersFrom(_, _)
SequentialParametersFrom(layers, idx) ==
    IF idx >= Len(layers) THEN <<>>
    ELSE LayerParameters(idx, layers[idx + 1]) \o SequentialParametersFrom(layers, idx + 1)

\* Sequential.parameters (every layer being an object with a __dict__)
SequentialParameters(m) == SequentialParametersFrom(m.attrs.layers.items, 0)

\* ------------------------------------------------------------------------
\* The trees of the model
\* ------------------------------------------------------------------------

\* np.random.randn: the i-th number drawn under a seed.
Randn(seed, i) == (((seed * 3 + i * 5) % 4) - 1) * One

\* A user-defined Module (forward and backward not overridden) that holds its
\* sub-layers in a ModuleList attribute: acts = ModuleList([Linear(1, 1), ReLU()]).
HolderInit(h, w0, b0) ==
    LET l == LinearInit(h, w0, b0)
    IN [h |-> l.h,
        o |-> NewModule("Module",
                <<<<"acts", ModuleListInit(PyList(<<l.o, ReLUInit(l.h).o>>)).o>>>>)]

\* The constructions the model explores.
Archs ==
    {"dense", "conv", "holder", "nested", "Linear", "BatchNormLayer", "BatchNorm2d",
     "Conv2d", "ConvTranspose2d", "MaxPool2d", "AdaptiveAvgPool2d"}

Build(arch, h, seed) ==
    CASE arch = "dense" ->
           \* Sequential(Linear(1, 1), ReLU(), DropoutLayer(), BatchNormLayer(1))
           LET l == LinearInit(h, Randn(seed, 1), Randn(seed, 2))
               b == BatchNormLayerInit(l.h)
           IN SequentialInit(b.h, <<l.o, ReLUInit(h).o, DropoutLayerInit(h).o, b.o>>)
      [] arch = "conv" ->
           \* Sequential(Conv2d(1, 1, 1), BatchNorm2d(1), Flatten(), Linear(1, 1))
           LET c == Conv2dInit(h, Randn(seed, 1), Randn(seed, 2))
               b == BatchNorm2dInit(c.h)
               l == LinearInit(b.h, Randn(seed, 3), Randn(seed, 4))
           IN SequentialInit(l.h, <<c.o, b.o, FlattenInit(h).o, l.o>>)
      [] arch = "holder" ->
           \* Sequential(Linear(1, 1), BatchNormLayer(1), <Module with a ModuleList>)
           LET l == LinearInit(h, Randn(seed, 1), Randn(seed, 2))
               b == BatchNormLayerInit(l.h)
               u == HolderInit(b.h, Randn(seed, 3), Randn(seed, 4))
           IN SequentialInit(u.h, <<l.o, b.o, u.o>>)
      [] arch = "nested" ->
           \* Sequential(SoftmaxRegression(1, 1), Linear(1, 1))
           LET r == SoftmaxRegressionInit(h, Randn(seed, 1), Randn(seed, 2))
               l == LinearInit(r.h, Randn(seed, 3), Randn(seed, 4))
           IN SequentialInit(l.h, <<r.o, l.o>>)
      [] arch = "Linear" -> LinearInit(h, Randn(seed, 1), Randn(seed, 2))
      [] arch = "BatchNormLayer" -> BatchNormLayerInit(h)
      [] arch = "BatchNorm2d" -> BatchNorm2dInit(h)
      [] arch = "Conv2d" -> Conv2dInit(h, Randn(seed, 1), Randn(seed, 2))
      [] arch = "ConvTranspose2d" -> ConvTranspose2dInit(h, Randn(seed, 1), Randn(seed, 2))
      [] arch = "MaxPool2d" -> MaxPool2dInit(h)
      [] arch = "AdaptiveAvgPool2d" -> AdaptiveAvgPool2dInit(h)

\* ------------------------------------------------------------------------
\* State
\* ------------------------------------------------------------------------

VARIABLES
    net,        \* the tree under test
    twin,       \* a second tree built by the same constructor call
    heap,       \* the arrays Parameters point to
    sd,         \* the mapping state_dict last returned, or None
    snap,       \* what the arrays of sd held when it was returned
    ret,        \* the last call: its name, target, result and exception
    calls,      \* the calls the last Sequential forward/backward made on its layers
    expect,     \* per grad key: initial value plus every contribution so far
    userArr,    \* an array made by the caller
    steps,      \* calls made so far
    limit,      \* calls the exploration allows
    proto,      \* the forward/backward pairs so far, and whether calls came in pairs
    box,        \* container construction: the object last built
    cv,         \* array calls: the call's arguments and its result
    moved       \* whether twin has loaded a mapping exported from net

vars == <<net, twin, heap, sd, snap, ret, calls, expect, userArr, steps, limit, proto, box, cv,
          moved>>

treeVars == <<net, twin, heap, sd, snap, ret, calls, expect, userArr, steps, limit, proto>>

\* Bounds of the exploration.
Batch == 2
MaxSteps == 4
MaxCalls == 2
MaxLoads == 3
NSeeds == 2

\* The input and gradient tensors a caller passes: one sample stands out.
Tensors == {[i \in 1..Batch |-> IF i = j THEN 3 * One ELSE -One] : j \in 1..Batch}

\* The masks np.random.binomial draws: every unit kept, or one dropped.
Masks == {[i \in 1..Batch |-> IF i = j THEN 0 ELSE 1] : j \in 0..Batch}

\* The content of the caller's array.
UserVal == One \div 2

Dict(items) == [k |-> "dict", items |-> items]

IsDict(d) == d.k = "dict"

\* The items of a mapping whose key ends with the given component.
EndsWith(key, last) == Len(key) > 0 /\ key[Len(key)] = last

GradItems(items) == SelectSeq(items, LAMBDA it : EndsWith(it.key, "grad"))

\* The value a mapping gives a key (the last assignment wins), as a set.
Lookup(items, key) == {items[t].value : t \in {u \in 1..Len(items) : items[u].key = key}}

\* The arrays of a mapping, read now.
Contents(h, items) == [t \in 1..Len(items) |-> Item(items[t].key, h[items[t].value])]

\* The record of a call: the method, the tree it was made on, its argument
\* (a tensor, or for a hand-written mapping its key), what it returned, the
\* exception it raised, and for a load whether the mapping was just exported.
Ret(op, tgt, exc, out) ==
    [op |-> op, tgt |-> tgt, exc |-> exc, out |-> out, arg |-> NoneObj, kw |-> Omitted,
     key |-> <<>>, fresh |-> FALSE]

NoCall == Ret("", "", NoExc, NoneObj)

\* Forward and backward calls come in pairs: pairs counts the completed ones,
\* open says a forward awaits its backward, ok that no call broke the order
\* or raised.
Proto(pairs, open, ok) == [pairs |-> pairs, open |-> open, ok |-> ok]

NoPairs == Proto(0, FALSE, TRUE)

\* The gradients of the tree as they are now.
GradsNow(h, m) == Contents(h, GradItems(state_dict(m)))

TreeInit(bound) ==
    /\ limit = bound
    /\ moved = FALSE
    /\ box = NoneObj
    /\ cv = NoneObj
    /\ \E arch \in Archs, seed \in 1..NSeeds :
         LET a == Build(arch, <<>>, seed)
             b == Build(arch, a.h, seed + 1)
             u == Alloc(b.h, UserVal)
         IN /\ net = a.o
            /\ twin = b.o
            /\ heap = u.h
            /\ userArr = u.ref
            /\ expect = GradsNow(u.h, a.o)
    /\ sd = NoneObj
    /\ snap = <<>>
    /\ ret = NoCall
    /\ calls = <<>>
    /\ steps = 0
    /\ proto = NoPairs

\* ------------------------------------------------------------------------
\* The calls a user makes on the tree
\* ------------------------------------------------------------------------

\* Adds the contributions of one backward call to the expected gradients.
Accumulate(exp, dparams) ==
    [t \in 1..Len(exp) |->
        Item(exp[t].key,
             exp[t].value
               + SumSeq([u \in 1..Len(dparams) |->
                           IF dparams[u].key = exp[t].key THEN dparams[u].value ELSE 0]))]

\* The ways the caller can give train to the root's forward.
RootKw(m) == IF m.cls \in TakesTrain THEN {Omitted, "True", "False"} ELSE {Omitted}

\* Whether the tree draws a mask in forward: it holds a DropoutLayer.
DrawsMask(m) ==
    \/ m.cls = "DropoutLayer"
    \/ /\ IsSequential(m)
       /\ \E t \in 1..Len(m.attrs.layers.items) : m.attrs.layers.items[t].cls = "DropoutLayer"

KeepAll == [i \in 1..Batch |-> 1]

\* net(x) or net(x, train=kw): one draw of np.random.binomial is at hand for
\* the DropoutLayer.
Forward(x, kw, mask) ==
    /\ steps < limit
    /\ kw \in RootKw(net)
    /\ DrawsMask(net) \/ mask = KeepAll
    /\ LET r == LayerForward(net, heap, NdArray(x), kw, <<mask>>)
       IN /\ net' = r.o
          /\ ret' = [Ret("forward", "net", r.exc, r.out) EXCEPT !.arg = NdArray(x), !.kw = kw]
          /\ calls' = r.calls
          /\ proto' = Proto(proto.pairs, TRUE, proto.ok /\ ~proto.open /\ r.exc = NoExc)
    /\ steps' = steps + 1
    /\ UNCHANGED <<twin, heap, sd, snap, expect, userArr, limit, box, cv, moved>>

\* net.backward(g)
Backward(g) ==
    /\ steps < limit
    /\ LET r == LayerBackward(net, heap, NdArray(g))
       IN /\ net' = r.o
          /\ heap' = r.h
          /\ ret' = [Ret("backward", "net", r.exc, r.out) EXCEPT !.arg = NdArray(g)]
          /\ calls' = r.calls
          /\ expect' = Accumulate(expect, r.dparams)
          /\ proto' = Proto(proto.pairs + 1, FALSE, proto.ok /\ proto.open /\ r.exc = NoExc)
    /\ steps' = steps + 1
    /\ UNCHANGED <<twin, sd, snap, userArr, limit, box, cv, moved>>

\* net.train()
Train ==
    /\ steps < limit
    /\ IsSequential(net)
    /\ net' = SequentialTrain(net)
    /\ ret' = Ret("train", "net", NoExc, NoneObj)
    /\ steps' = steps + 1
    /\ UNCHANGED <<twin, heap, sd, snap, calls, expect, userArr, limit, proto, box, cv, moved>>

\* net.eval()
Eval ==
    /\ steps < limit
    /\ IsSequential(net)
    /\ net' = SequentialEval(net)
    /\ ret' = Ret("eval", "net", NoExc, NoneObj)
    /\ steps' = steps + 1
    /\ UNCHANGED <<twin, heap, sd, snap, calls, expect, userArr, limit, proto, box, cv, moved>>

\* net.parameters()
Parameters ==
    /\ steps < limit
    /\ IsSequential(net)
    /\ ret' = Ret("parameters", "net", NoExc, PyList(SequentialParameters(net)))
    /\ steps' = steps + 1
    /\ UNCHANGED <<net, twin, heap, sd, snap, calls, expect, userArr, limit, proto, box, cv, moved>>

\* sd = net.state_dict()
Export ==
    /\ steps < limit
    /\ LET items == state_dict(net)
       IN /\ sd' = Dict(items)
          /\ snap' = Contents(heap, items)
          /\ ret' = Ret("state_dict", "net", NoExc, NoneObj)
    /\ steps' = steps + 1
    /\ UNCHANGED <<net, twin, heap, calls, expect, userArr, limit, proto, box, cv, moved>>

\* What a load does to the variables: the target tree is rebound, and a load
\* into net starts the gradient protocol afresh from the arrays it now has.
Loaded(tgt, r, key, fresh) ==
    /\ IF tgt = "net" THEN net' = r.o /\ twin' = twin ELSE twin' = r.o /\ net' = net
    /\ ret' = [Ret("load_state_dict", tgt, r.exc, NoneObj) EXCEPT !.key = key, !.fresh = fresh]
    /\ expect' = IF tgt = "net" THEN GradsNow(heap, r.o) ELSE expect
    /\ proto' = IF tgt = "net" THEN NoPairs ELSE proto
    /\ steps' = steps + 1
    /\ moved' = (moved \/ (tgt = "twin" /\ r.exc = NoExc))
    /\ UNCHANGED <<heap, sd, snap, calls, userArr, limit, box, cv>>

\* tgt.load_state_dict(sd), sd being the mapping last exported from net.
Import(tgt) ==
    /\ steps < limit
    /\ IsDict(sd)
    /\ LET m == IF tgt = "net" THEN net ELSE twin
       IN Loaded(tgt, load_state_dict(m, sd.items), <<>>, ret.op = "state_dict")

\* The keys of the one-entry mappings a caller writes by hand.
CraftedKeys ==
    {<<"weight">>,
     <<"weight", Dot, "value">>,
     <<"weight", Dot, "foo">>,
     <<"weight", Dot, "value", Dot, "foo">>,
     <<"gamma", Dot, "grad">>,
     <<"running_mean", Dot, "value">>,
     <<"0", Dot, "weight", Dot, "grad">>,
     <<"foo", Dot, "value">>}

\* net.load_state_dict({key: userArr})
LoadKey(key) ==
    /\ steps < limit
    /\ Loaded("net", load_state_dict(net, <<Item(key, userArr)>>), key, FALSE)

\* The calls of a training run.
Next ==
    \/ \E x \in Tensors, kw \in {Omitted, "True", "False"}, mask \in Masks : Forward(x, kw, mask)
    \/ \E g \in Tensors : Backward(g)
    \/ Train
    \/ Eval
    \/ Parameters

Init == TreeInit(MaxSteps)

Spec == Init /\ [][Next]_vars

\* One forward and one backward call.
PairNext ==
    \/ \E x \in Tensors, kw \in {Omitted, "True", "False"}, mask \in Masks : Forward(x, kw, mask)
    \/ \E g \in Tensors : Backward(g)

SpecPair == TreeInit(MaxCalls) /\ [][PairNext]_vars

\* Saving and restoring a tree that has been run.
SerialNext ==
    \/ \E x \in Tensors, kw \in {Omitted, "True", "False"}, mask \in Masks : Forward(x, kw, mask)
    \/ \E g \in Tensors : Backward(g)
    \/ Export
    \/ \E tgt \in {"net", "twin"} : Import(tgt)
    \/ \E key \in CraftedKeys : LoadKey(key)

SpecSerial == TreeInit(MaxLoads) /\ [][SerialNext]_vars

\* ------------------------------------------------------------------------
\* Building containers
\* ------------------------------------------------------------------------

MaxArgs == 2
MaxOps == 3

\* What a caller may hand to a container: Modules, and objects that are not.
Elems == {ReLUInit(<<>>).o, FlattenInit(<<>>).o, PyInt(5), NoneObj}

ArgLists == UNION {[1..n -> Elems] : n \in 0..MaxArgs}

HasNonModule(args) == \E t \in 1..Len(args) : ~IsModule(args[t])

\* The record of a container call: the object it was made on (None for a
\* constructor), the object afterwards (None if the constructor raised),
\* whether an argument was not a Module, and the exception.
Boxed(op, before, after, bad, exc) ==
    [op |-> op, before |-> before, obj |-> after, bad |-> bad, exc |-> exc]

TreeIdle(bound) ==
    /\ net = NoneObj
    /\ twin = NoneObj
    /\ heap = <<>>
    /\ sd = NoneObj
    /\ snap = <<>>
    /\ ret = NoCall
    /\ calls = <<>>
    /\ expect = <<>>
    /\ userArr = 0
    /\ steps = 0
    /\ limit = bound
    /\ proto = NoPairs
    /\ moved = FALSE

ContainerInit ==
    /\ TreeIdle(MaxOps)
    /\ box = Boxed("", NoneObj, NoneObj, FALSE, NoExc)
    /\ cv = NoneObj

\* box = Sequential(*args)
MkSequential(args) ==
    /\ steps < limit
    /\ box' = Boxed("Sequential", NoneObj, SequentialInit(<<>>, args).o, HasNonModule(args), NoExc)
    /\ steps' = steps + 1
    /\ UNCHANGED <<net, twin, heap, sd, snap, ret, calls, expect, userArr, limit, proto, cv, moved>>

\* box = ModuleList(modules)
MkModuleList(modules) ==
    /\ steps < limit
    /\ LET r == ModuleListInit(modules)
       IN box' = Boxed("ModuleList", NoneObj, IF r.exc = NoExc THEN r.o ELSE NoneObj,
                       modules.k = "list" /\ HasNonModule(modules.items), r.exc)
    /\ steps' = steps + 1
    /\ UNCHANGED <<net, twin, heap, sd, snap, ret, calls, expect, userArr, limit, proto, cv, moved>>

\* box.append(module)
BoxAppend(module) ==
    /\ steps < limit
    /\ IsModuleList(box.obj)
    /\ LET r == ModuleListAppend(box.obj, module)
       IN box' = Boxed("append", box.obj, r.o, ~IsModule(module), r.exc)
    /\ steps' = steps + 1
    /\ UNCHANGED <<net, twin, heap, sd, snap, ret, calls, expect, userArr, limit, proto, cv, moved>>

\* box[idx] = module
BoxSetItem(idx, module) ==
    /\ steps < limit
    /\ IsModuleList(box.obj)
    /\ idx < Len(box.obj.modules)
    /\ LET r == ModuleListSetItem(box.obj, idx, module)
       IN box' = Boxed("__setitem__", box.obj, r.o, ~IsModule(module), r.exc)
    /\ steps' = steps + 1
    /\ UNCHANGED <<net, twin, heap, sd, snap, ret, calls, expect, userArr, limit, proto, cv, moved>>

ContainerNext ==
    \/ \E args \in ArgLists : MkSequential(args)
    \/ \E args \in ArgLists : MkModuleList(PyList(args))
    \/ \E modules \in {NoneObj, PyInt(5)} : MkModuleList(modules)
    \/ \E module \in Elems : BoxAppend(module)
    \/ \E idx \in 0..MaxArgs, module \in Elems : BoxSetItem(idx, module)

SpecContainer == ContainerInit /\ [][ContainerNext]_vars

\* ------------------------------------------------------------------------
\* Calling Conv2d.forward on arrays of every small shape
\* ------------------------------------------------------------------------

MaxCells == 6
MaxTaps == 4
MaxStride == 2
MaxPadding == 1

\* An array of the given shape whose entries differ from place to place.
Fill(shape, mult) ==
    Arr(shape, [t \in 1..Prod(shape) |-> (((t * mult) % 5) - 2) * One])

\* The input shapes (N, C, H, W) of at most MaxCells entries, and the filter
\* banks (O, kh, kw) of at most MaxTaps taps per input channel.
XShapes ==
    {sh \in [1..4 -> 1..MaxCells] : sh[1] * sh[2] * sh[3] * sh[4] <= MaxCells}

WShapes ==
    {sh \in [1..3 -> 1..MaxTaps] : sh[1] * sh[2] * sh[3] <= MaxTaps}

ConvInit ==
    /\ TreeIdle(1)
    /\ box = NoneObj
    /\ \E xs \in XShapes, ws \in WShapes, s \in 1..MaxStride, p \in 0..MaxPadding :
         /\ xs[3] + 2 * p >= ws[2]
         /\ xs[4] + 2 * p >= ws[3]
         /\ cv = [x |-> Fill(xs, 3),
                  weight |-> Fill(<<ws[1], xs[2], ws[2], ws[3]>>, 2),
                  bias |-> Fill(<<ws[1]>>, 1),
                  stride |-> s,
                  padding |-> p,
                  out |-> NoneObj]

\* out = Conv2d(C, O, (kh, kw), stride, padding)(x), the layer holding the
\* given weight and bias.
Conv2dCall ==
    /\ steps < limit
    /\ cv' = [cv EXCEPT !.out = Conv2dForwardArr(cv.weight, cv.bias, cv.stride, cv.padding, cv.x)]
    /\ steps' = steps + 1
    /\ UNCHANGED <<net, twin, heap, sd, snap, ret, calls, expect, userArr, limit, proto, box, moved>>

ConvNext == Conv2dCall

SpecConv == ConvInit /\ [][ConvNext]_vars

\* ------------------------------------------------------------------------
\* Calling ConvTranspose2d.forward on arrays of every small shape
\* ------------------------------------------------------------------------

\* The pairs a stride, a padding and an output padding may be.
StridePairs == (1..MaxStride) \X (1..MaxStride)

PaddingPairs == (0..MaxPadding) \X (0..MaxPadding)

\* The output size of a transposed convolution along one side.
TransposedSize(n, s, p, k, op) == (n - 1) * s - 2 * p + k + op

\* Inputs (N, C, H, W), weights (C, O, kh, kw), and strides, paddings and
\* output paddings (below the stride) that give an output of at least 1x1.
ConvTInit ==
    /\ TreeIdle(1)
    /\ box = NoneObj
    /\ \E xs \in XShapes, ws \in WShapes, s \in StridePairs, p \in PaddingPairs,
          op \in {<<0, 0>>, <<1, 1>>} :
         /\ op[1] < s[1]
         /\ op[2] < s[2]
         /\ TransposedSize(xs[3], s[1], p[1], ws[2], op[1]) >= 1
         /\ TransposedSize(xs[4], s[2], p[2], ws[3], op[2]) >= 1
         /\ cv = [x |-> Fill(xs, 3),
                  weight |-> Fill(<<xs[2], ws[1], ws[2], ws[3]>>, 2),
                  bias |-> Fill(<<ws[1]>>, 1),
                  stride |-> s,
                  padding |-> p,
                  output_padding |-> op,
                  out |-> NoneObj]

\* out = ConvTranspose2d(C, O, (kh, kw), stride, padding, output_padding)(x),
\* the layer holding the given weight and bias.
ConvTranspose2dCall ==
    /\ steps < limit
    /\ cv' = [cv EXCEPT !.out =
                ConvTranspose2dForwardArr(cv.weight, cv.bias, cv.weight.shape[1],
                                          cv.weight.shape[2], cv.stride, cv.padding,
                                          cv.output_padding, cv.x)]
    /\ steps' = steps + 1
    /\ UNCHANGED <<net, twin, heap, sd, snap, ret, calls, expect, userArr, limit, proto, box, moved>>

ConvTNext == ConvTranspose2dCall

SpecConvT == ConvTInit /\ [][ConvTNext]_vars

\* ------------------------------------------------------------------------
\* Activation layers on the caller's array: forward keeps a reference to the
\* array it is given (self.prev_inp = inp), so the arrays live in a pool and
\* prev_inp names one of them.
\* ------------------------------------------------------------------------

\* leak=0.01, the default of LeakyReLULayer
LeakDefault == 1

\* The leaks tried: the default, 0.2 and -0.5.
Leaks == {LeakDefault, One \div 5, -(One \div 2)}

SigmoidInit(h) ==
    [h |-> h, o |-> NewModule("Sigmoid", <<<<"prev_inp", NoneObj>>>>)]

LeakyReLULayerInit(h, leak) ==
    [h |-> h,
     o |-> NewModule("LeakyReLULayer", <<<<"prev_inp", NoneObj>>, <<"leak", PyFloat(leak)>>>>)]

\* np.exp(a) for a between -4 and 4, as (1 + a/16)^16
Exp(a) ==
    LET e1 == One + a \div 16
        e2 == FMul(e1, e1)
        e4 == FMul(e2, e2)
        e8 == FMul(e4, e4)
    IN FMul(e8, e8)

\* The result of a call on a layer whose arrays are in a pool.
Pooled(o, pool, out, exc) == [o |-> o, pool |-> pool, out |-> out, exc |-> exc]

\* The layer with prev_inp read through its reference.
Resolved(m, pool) ==
    IF m.attrs.prev_inp.k = "ref"
    THEN SetAttr(m, "prev_inp", NdArray(pool[m.attrs.prev_inp.ref]))
    ELSE m

\* ReLU.forward and ReLU.backward on a pooled array
ReLUForwardAt(m, pool, inp) ==
    LET r == ReLUForward(m, <<>>, IF IsNone(inp) THEN inp ELSE NdArray(pool[inp.ref]), 0)
    IN Pooled(SetAttr(r.o, "prev_inp", inp), pool, r.out, r.exc)

ReLUBackwardAt(m, pool, grad) ==
    LET r == ReLUBackward(Resolved(m, pool), <<>>, grad)
    IN Pooled(m, pool, r.out, r.exc)

\* Sigmoid.forward
SigmoidForward(m, pool, inp) ==
    LET m1 == SetAttr(m, "prev_inp", inp)
    IN IF IsNone(inp) THEN Pooled(m1, pool, NoneObj, "TypeError")
       ELSE Pooled(m1, pool,
                   NdArray(MapSeq(pool[inp.ref], LAMBDA x : FDiv(One, One + Exp(-x)))),
                   NoExc)

\* Sigmoid.backward: self.forward(self.prev_inp), then grad * s * (1 - s)
SigmoidBackward(m, pool, grad) ==
    LET f == SigmoidForward(m, pool, m.attrs.prev_inp)
    IN IF f.exc # NoExc THEN f
       ELSE IF IsNone(grad) THEN Pooled(f.o, f.pool, NoneObj, "TypeError")
       ELSE Pooled(f.o, f.pool,
                   NdArray([i \in 1..Len(grad.v) |->
                              FMul(FMul(grad.v[i], f.out.v[i]), One - f.out.v[i])]),
                   NoExc)

\* LeakyReLULayer.forward: np.maximum(self.leak * inp, inp)
LeakyReLULayerForward(m, pool, inp) ==
    LET m1 == SetAttr(m, "prev_inp", inp)
    IN IF IsNone(inp) THEN Pooled(m1, pool, NoneObj, "TypeError")
       ELSE Pooled(m1, pool,
                   NdArray(MapSeq(pool[inp.ref],
                                  LAMBDA x : Max2(FMul(m.attrs.leak.v, x), x))),
                   NoExc)

\* LeakyReLULayer.backward, lines 181-183: two masked assignments into the
\* array prev_inp names, the second reading what the first wrote, then
\* grad * self.prev_inp.
LeakyReLULayerBackward(m, pool, grad) ==
    IF IsNone(m.attrs.prev_inp) THEN Pooled(m, pool, NoneObj, "TypeError")
    ELSE LET r == m.attrs.prev_inp.ref
             first == MapSeq(pool[r], LAMBDA x : IF x < 0 THEN m.attrs.leak.v ELSE x)
             second == MapSeq(first, LAMBDA x : IF x >= 0 THEN One ELSE x)
             pool1 == [pool EXCEPT ![r] = second]
         IN IF IsNone(grad) THEN Pooled(m, pool1, NoneObj, "TypeError")
            ELSE Pooled(m, pool1,
                        NdArray([i \in 1..Len(grad.v) |-> FMul(grad.v[i], second[i])]),
                        NoExc)

\* The arrays a caller passes to an activation layer.
ActInputs == [1..Batch -> {-2 * One, 0, One}]

MaxActCalls == 3

\* cv holds the layer m, the pool with the caller's array x, and of the last
\* call: its name, argument, result, exception, and what x held when the
\* forward before it was called.
ActInit ==
    /\ TreeIdle(MaxActCalls)
    /\ box = NoneObj
    /\ \E a \in ActInputs,
          m \in {ReLUInit(<<>>).o, SigmoidInit(<<>>).o}
                  \cup {LeakyReLULayerInit(<<>>, leak).o : leak \in Leaks} :
         cv = [m |-> m, pool |-> <<a>>, x |-> ArrayRef(1),
               op |-> "", arg |-> NoneObj, out |-> NoneObj, exc |-> NoExc,
               inp |-> NoneObj, after |-> ""]

\* out = m(x)
ActForward ==
    /\ steps < limit
    /\ LET r == CASE cv.m.cls = "ReLU" -> ReLUForwardAt(cv.m, cv.pool, cv.x)
                  [] cv.m.cls = "Sigmoid" -> SigmoidForward(cv.m, cv.pool, cv.x)
                  [] OTHER -> LeakyReLULayerForward(cv.m, cv.pool, cv.x)
       IN cv' = [cv EXCEPT !.m = r.o, !.pool = r.pool, !.op = "forward", !.arg = cv.x,
                           !.out = r.out, !.exc = r.exc,
                           !.inp = NdArray(cv.pool[cv.x.ref]), !.after = cv.op]
    /\ steps' = steps + 1
    /\ UNCHANGED <<net, twin, heap, sd, snap, ret, calls, expect, userArr, limit, proto, box, moved>>

\* out = m.backward(grad), grad an array of the caller's own
ActBackward(grad) ==
    /\ steps < limit
    /\ LET r == CASE cv.m.cls = "ReLU" -> ReLUBackwardAt(cv.m, cv.pool, NdArray(grad))
                  [] cv.m.cls = "Sigmoid" -> SigmoidBackward(cv.m, cv.pool, NdArray(grad))
                  [] OTHER -> LeakyReLULayerBackward(cv.m, cv.pool, NdArray(grad))
       IN cv' = [cv EXCEPT !.m = r.o, !.pool = r.pool, !.op = "backward",
                           !.arg = NdArray(grad), !.out = r.out, !.exc = r.exc,
                           !.after = cv.op]
    /\ steps' = steps + 1
    /\ UNCHANGED <<net, twin, heap, sd, snap, ret, calls, expect, userArr, limit, proto, box, moved>>

ActNext ==
    \/ ActForward
    \/ \E grad \in Tensors : ActBackward(grad)

SpecAct == ActInit /\ [][ActNext]_vars

\* ------------------------------------------------------------------------
\* Calling im2col_indices and col2im_indices on arrays of every small shape
\* ------------------------------------------------------------------------

\* The fields (field_height, field_width) of at most MaxTaps taps.
Fields == {f \in (1..MaxTaps) \X (1..MaxTaps) : f[1] * f[2] <= MaxTaps}

\* The number of window positions along a side of length n.
OutSize(n, p, f, s) == (n + 2 * p - f) \div s + 1

\* An input (N, C, H, W), a field that fits the padded input, a padding and a
\* stride.
PatchInit ==
    /\ TreeIdle(2)
    /\ box = NoneObj
    /\ \E xs \in XShapes, f \in Fields, s \in StridePairs, p \in PaddingPairs :
         /\ xs[3] + 2 * p[1] >= f[1]
         /\ xs[4] + 2 * p[2] >= f[2]
         /\ cv = [x |-> Fill(xs, 3), field |-> f, stride |-> s, padding |-> p,
                  cols |-> NoneObj, back |-> NoneObj]

\* cols = im2col_indices(x, field_height, field_width, padding, stride)
Im2colCall ==
    /\ steps < limit
    /\ cv.cols = NoneObj
    /\ cv' = [cv EXCEPT !.cols = im2col_indices(cv.x, cv.field[1], cv.field[2],
                                                PyTuple(cv.padding), PyTuple(cv.stride))]
    /\ steps' = steps + 1
    /\ UNCHANGED <<net, twin, heap, sd, snap, ret, calls, expect, userArr, limit, proto, box, moved>>

\* back = col2im_indices(cols, x.shape, field_height, field_width, padding, stride)
Col2imCall ==
    /\ steps < limit
    /\ cv.cols # NoneObj
    /\ cv' = [cv EXCEPT !.back = col2im_indices(cv.cols, cv.x.shape, cv.field[1],
                                                cv.field[2], cv.padding, cv.stride)]
    /\ steps' = steps + 1
    /\ UNCHANGED <<net, twin, heap, sd, snap, ret, calls, expect, userArr, limit, proto, box, moved>>

PatchNext ==
    \/ Im2colCall
    \/ Col2imCall

SpecPatch == PatchInit /\ [][PatchNext]_vars

\* im2col_indices alone, on the same inputs
Im2colNext == Im2colCall

SpecIm2col == PatchInit /\ [][Im2colNext]_vars

\* ------------------------------------------------------------------------
\* BatchNorm2d on (N, C, H, W) arrays, with numpy's broadcasting
\* ------------------------------------------------------------------------

\* A shape with 1s put before it up to n sides.
PadShape(s, n) == [i \in 1..n |-> IF i <= n - Len(s) THEN 1 ELSE s[i - (n - Len(s))]]

\* Whether two shapes broadcast: side by side from the right, equal or 1.
Broadcastable(s1, s2) ==
    LET n == Max2(Len(s1), Len(s2))
    IN \A i \in 1..n : \/ PadShape(s1, n)[i] = PadShape(s2, n)[i]
                       \/ PadShape(s1, n)[i] = 1
                       \/ PadShape(s2, n)[i] = 1

BroadcastShape(s1, s2) ==
    LET n == Max2(Len(s1), Len(s2))
    IN [i \in 1..n |-> IF PadShape(s1, n)[i] = 1 THEN PadShape(s2, n)[i]
                       ELSE PadShape(s1, n)[i]]

\* The element of a that a broadcast puts at idx.
BroadcastAt(a, idx) ==
    LET d == Len(idx) - Len(a.shape)
    IN At(a, [i \in 1..Len(a.shape) |-> IF a.shape[i] = 1 THEN 0 ELSE idx[i + d]])

\* a op b, elementwise with broadcasting
Elementwise(a, b, Op(_, _)) ==
    FromFn(BroadcastShape(a.shape, b.shape),
           LAMBDA idx : Op(BroadcastAt(a, idx), BroadcastAt(b, idx)))

\* The elements of channel c of an (N, C, H, W) array.
ChannelOf(a, c) ==
    LET hw == a.shape[3] * a.shape[4]
    IN [t \in 1..(a.shape[1] * hw) |->
          At(a, <<(t - 1) \div hw, c, ((t - 1) % hw) \div a.shape[4], (t - 1) % a.shape[4]>>)]

\* np.mean and np.var over axis=(0, 2, 3) with keepdims=True
MeanNHW(a) == Arr(<<1, a.shape[2], 1, 1>>, [c \in 1..a.shape[2] |-> Mean(ChannelOf(a, c - 1))])

VarNHW(a) == Arr(<<1, a.shape[2], 1, 1>>, [c \in 1..a.shape[2] |-> Var(ChannelOf(a, c - 1))])

\* BatchNorm2d(num_features, eps, momentum): the attributes, lines 585-595
BatchNorm2dInitArr(num_features) ==
    [eps |-> EpsArg, momentum |-> MomentumArg, num_features |-> num_features,
     gamma |-> Arr(<<num_features>>, [c \in 1..num_features |-> One]),
     beta |-> Arr(<<num_features>>, [c \in 1..num_features |-> 0]),
     running_mean |-> Arr(<<num_features>>, [c \in 1..num_features |-> 0]),
     running_var |-> Arr(<<num_features>>, [c \in 1..num_features |-> One]),
     sample_mean |-> NoneObj, sample_var |-> NoneObj, out_ |-> NoneObj]

\* momentum * running + (1 - momentum) * sample, arrays broadcast
RunningUpdateArr(momentum, running, sample) ==
    Elementwise(running, sample, LAMBDA r, v : RunningUpdate(momentum, r, v))

\* BatchNorm2d.forward, lines 598-614: the layer afterwards, the result, and
\* the exception if an operand pair does not broadcast.
BatchNorm2dForwardArr(bn, inp, train) ==
    LET bn1 == IF train
               THEN [bn EXCEPT !.sample_mean = MeanNHW(inp),
                               !.sample_var = VarNHW(inp),
                               !.running_mean =
                                   RunningUpdateArr(bn.momentum, bn.running_mean, MeanNHW(inp)),
                               !.running_var =
                                   RunningUpdateArr(bn.momentum, bn.running_var, VarNHW(inp))]
               ELSE [bn EXCEPT !.sample_mean = bn.running_mean,
                               !.sample_var = bn.running_var]
        C == bn.num_features
    IN IF \/ ~Broadcastable(inp.shape, bn1.sample_mean.shape)
          \/ ~Broadcastable(inp.shape, bn1.sample_var.shape)
          \/ ~Broadcastable(BroadcastShape(inp.shape, bn1.sample_mean.shape),
                            bn1.sample_var.shape)
       THEN [bn |-> bn1, out |-> NoneObj, exc |-> "ValueError"]
       ELSE LET centred == Elementwise(inp, bn1.sample_mean, LAMBDA x, mu : x - mu)
                out_ == Elementwise(centred, bn1.sample_var,
                                    LAMBDA d, v : FDiv(d, FSqrt(v + bn.eps)))
                gamma_reshaped == Reshape(bn.gamma, <<1, C, 1, 1>>)
                beta_reshaped == Reshape(bn.beta, <<1, C, 1, 1>>)
            IN IF ~Broadcastable(<<1, C, 1, 1>>, out_.shape)
               THEN [bn |-> [bn1 EXCEPT !.out_ = out_], out |-> NoneObj, exc |-> "ValueError"]
               ELSE [bn |-> [bn1 EXCEPT !.out_ = out_],
                     out |-> Elementwise(Elementwise(gamma_reshaped, out_, FMul),
                                         beta_reshaped, LAMBDA v, b : v + b),
                     exc |-> NoExc]

MaxNormCalls == 3

\* A BatchNorm2d for the channels of inputs of one shape; cv holds the layer,
\* the shape, the inputs of the train-mode calls so far, and the last call.
Norm2dInit ==
    /\ TreeIdle(MaxNormCalls)
    /\ box = NoneObj
    /\ \E xs \in XShapes :
         cv = [bn |-> BatchNorm2dInitArr(xs[2]), xshape |-> xs, trained |-> <<>>,
               op |-> "", inp |-> NoneObj, train |-> FALSE, out |-> NoneObj, exc |-> NoExc]

\* out = bn(inp, train=train), inp one of the arrays of the shape
Norm2dForward(mult, train) ==
    /\ steps < limit
    /\ LET inp == Fill(cv.xshape, mult)
           r == BatchNorm2dForwardArr(cv.bn, inp, train)
       IN cv' = [cv EXCEPT !.bn = r.bn, !.op = "forward", !.inp = inp, !.train = train,
                           !.out = r.out, !.exc = r.exc,
                           !.trained = IF train THEN Append(cv.trained, inp)
                                       ELSE cv.trained]
    /\ steps' = steps + 1
    /\ UNCHANGED <<net, twin, heap, sd, snap, ret, calls, expect, userArr, limit, proto, box, moved>>

Norm2dNext ==
    \E mult \in {1, 3}, train \in BOOLEAN : Norm2dForward(mult, train)

SpecNorm2d == Norm2dInit /\ [][Norm2dNext]_vars

\* Handing one tree's state to another and running the first on.
MaxTransfer == 4

TransferNext ==
    \/ \E x \in Tensors, kw \in {Omitted, "True", "False"}, mask \in Masks : Forward(x, kw, mask)
    \/ \E g \in Tensors : Backward(g)
    \/ Export
    \/ Import("twin")

SpecTransfer == TreeInit(MaxTransfer) /\ [][TransferNext]_vars

\* ------------------------------------------------------------------------
\* What the properties speak of
\* ------------------------------------------------------------------------

\* The tree a call was made on.
Target == IF ret.tgt = "twin" THEN twin ELSE net

\* The layers of a Sequential.
Layers(m) == m.attrs.layers.items

NormClasses == {"BatchNormLayer", "BatchNorm2d"}

Unsupported == {"Conv2d", "ConvTranspose2d", "MaxPool2d", "AdaptiveAvgPool2d"}

\* The keys state_dict gives the tree: one per value and grad of a Parameter.
ParamKeys(m) == {state_dict(m)[t].key : t \in 1..Len(state_dict(m))}

\* Every attribute of the tree, named by its path from the root.
RECURSIVE AttrSig(_)
AttrSig(o) ==
    IF o.k = "Parameter" THEN {<<n>> : n \in DOMAIN o.slots}
    ELSE IF o.k = "Module"
    THEN UNION {{<<n>>} \cup {<<n>> \o q : q \in AttrSig(o.attrs[n])} : n \in DOMAIN o.attrs}
    ELSE IF o.k = "ModuleList"
    THEN UNION {{IntToStr(t - 1) \o q : q \in AttrSig(o.modules[t])} : t \in 1..Len(o.modules)}
    ELSE IF o.k = "list"
    THEN UNION {{IntToStr(t - 1) \o q : q \in AttrSig(o.items[t])} : t \in 1..Len(o.items)}
    ELSE {}

\* The running mean and variance of a normalization layer.
LayerStats(h, m) == <<Num(h, m.attrs.running_mean), Num(h, m.attrs.running_var)>>

\* The running statistics of every normalization layer of the tree: of the
\* root if it is one, of the layers of a Sequential otherwise.
RunningStats(h, m) ==
    IF m.cls \in NormClasses THEN <<LayerStats(h, m)>>
    ELSE IF IsSequential(m)
    THEN [t \in 1..Len(Layers(m)) |->
            IF Layers(m)[t].cls \in NormClasses THEN LayerStats(h, Layers(m)[t]) ELSE <<>>]
    ELSE <<>>

HasNorm(m) ==
    \/ m.cls \in NormClasses
    \/ IsSequential(m) /\ \E t \in 1..Len(Layers(m)) : Layers(m)[t].cls \in NormClasses

\* A module that holds sub-layers in a ModuleList attribute.
HoldsModuleList(m) == \E n \in DOMAIN m.attrs : IsModuleList(m.attrs[n])

\* A Sequential whose layers mix Linear, normalization and a ModuleList holder.
Mixes(m) ==
    /\ IsSequential(m)
    /\ \E t \in 1..Len(Layers(m)) : Layers(m)[t].cls = "Linear"
    /\ \E t \in 1..Len(Layers(m)) : Layers(m)[t].cls \in NormClasses
    /\ \E t \in 1..Len(Layers(m)) : HoldsModuleList(Layers(m)[t])

\* ------------------------------------------------------------------------
\* Properties
\* ------------------------------------------------------------------------

\* C1: on a Sequential mixing Linear, normalization and a ModuleList holder,
\* load_state_dict(state_dict()) applied to the same tree or to its twin
\* returns without raising, and every Parameter value and grad of the target
\* then equals what the exported tree held at the moment of export.
C1_SequentialRoundTrip ==
    (ret.op = "load_state_dict" /\ ret.fresh /\ Mixes(net))
        => /\ ret.exc = NoExc
           /\ Contents(heap, state_dict(Target)) = snap

\* C2: a load_state_dict of Module or of BatchNorm2d given a key that names
\* neither the value nor the grad of a Parameter of the tree raises, and
\* creates no attribute on any Parameter or Module.
C2_NoKeySilentlyDropped ==
    [][(/\ ret'.op = "load_state_dict"
        /\ steps' = steps + 1
        /\ ~IsSequential(net)
        /\ ret'.key # <<>>
        /\ ret'.key \notin ParamKeys(net))
          => (ret'.exc # NoExc /\ AttrSig(net') = AttrSig(net))]_vars

\* C3: while forward and backward calls come in pairs and nothing resets the
\* gradients, every Parameter's grad equals its initial value plus the sum of
\* the gradients the backward calls computed for it.
C3_GradsAccumulate ==
    proto.ok => GradsNow(heap, net) = expect

\* C4: backward on Conv2d, ConvTranspose2d, MaxPool2d and AdaptiveAvgPool2d,
\* called on the layer or by a Sequential holding it, with or without a
\* forward before, raises NotImplementedError, returns nothing, and leaves the
\* values and grads of the layer's Parameters as they were.
C4_UnsupportedBackwardRaises ==
    [][(ret'.op = "backward" /\ steps' = steps + 1)
         => /\ net.cls \in Unsupported
                 => /\ ret'.exc = "NotImplementedError"
                    /\ IsNone(ret'.out)
                    /\ Contents(heap', state_dict(net')) = Contents(heap, state_dict(net))
            /\ IsSequential(net)
                 => \A t \in 1..Len(calls') :
                      LET idx == calls'[t].layer + 1
                      IN Layers(net)[idx].cls \in Unsupported
                           => /\ calls'[t].exc = "NotImplementedError"
                              /\ IsNone(calls'[t].ret)
                              /\ ret'.exc = "NotImplementedError"
                              /\ Contents(heap', state_dict(Layers(net')[idx]))
                                   = Contents(heap, state_dict(Layers(net)[idx]))]_vars

\* A Sequential whose first layer is a Conv2d has run forward, and its
\* backward has gone through the layers above down to the Conv2d, which raised.
C4_Witness ==
    /\ steps = 2
    /\ ret.op = "backward"
    /\ IsSequential(net)
    /\ Layers(net)[1].cls = "Conv2d"
    /\ Len(calls) = Len(Layers(net))
    /\ calls[Len(calls)].layer = 0
    /\ calls[Len(calls)].arg.k = "ndarray"
    /\ calls[Len(calls)].exc = "NotImplementedError"
    /\ ret.exc = "NotImplementedError"

\* A call on a layer, as the Sequential made it, had train in effect: given,
\* or left to the default True of the layer's forward.
EffectiveTrain(call) == call.train # "False"

ModeClasses == NormClasses \cup {"DropoutLayer"}

\* C5: in a forward call of a Sequential every normalization layer and every
\* DropoutLayer runs with train equal to the Sequential's if_train and every
\* other layer is called without the keyword; with if_train False the call
\* applies no dropout mask and changes no running mean or variance.
C5_ModeReachesModeLayers ==
    [][(ret'.op = "forward" /\ steps' = steps + 1 /\ IsSequential(net))
         => /\ \A t \in 1..Len(calls') :
                 LET cls == Layers(net)[calls'[t].layer + 1].cls
                 IN IF cls \in ModeClasses
                    THEN EffectiveTrain(calls'[t]) = net.attrs.if_train.v
                    ELSE calls'[t].train = Omitted
            /\ ~net.attrs.if_train.v
                 => /\ RunningStats(heap', net') = RunningStats(heap, net)
                    /\ \A t \in 1..Len(calls') :
                         Layers(net)[calls'[t].layer + 1].cls = "DropoutLayer"
                           => calls'[t].ret = calls'[t].arg]_vars

\* The calls of a trace thread a value: each call's argument is what the call
\* before it returned, the first call's is the caller's argument.
Threads(trace, arg) ==
    \A t \in 1..Len(trace) :
        /\ trace[t].arg = (IF t = 1 THEN arg ELSE trace[t - 1].ret)
        /\ t < Len(trace) => trace[t].exc = NoExc

\* C6: Sequential.forward visits the layers first to last, and
\* Sequential.backward calls backward on the layers last to first, each layer
\* once, giving each the value the layer after it returned; a backward that
\* returns has called every layer and returns the first layer's result, and
\* one that raises stopped at the layer that raised.
C6_BackwardReversesForward ==
    IsSequential(net) =>
        LET n == Len(Layers(net))
        IN /\ ret.op = "forward" =>
                /\ \A t \in 1..Len(calls) : calls[t].layer = t - 1
                /\ Threads(calls, ret.arg)
           /\ ret.op = "backward" =>
                /\ Len(calls) <= n
                /\ \A t \in 1..Len(calls) : calls[t].layer = n - t
                /\ Threads(calls, ret.arg)
                /\ ret.exc = NoExc => Len(calls) = n /\ ret.out = calls[n].ret
                /\ ret.exc # NoExc => n > 0 /\ calls[Len(calls)].exc = ret.exc

\* A Sequential of four layers has run forward and its backward has returned
\* the first layer's gradient.
C6_Witness ==
    /\ IsSequential(net)
    /\ Len(Layers(net)) = 4
    /\ ret.op = "backward"
    /\ ret.exc = NoExc
    /\ Len(calls) = 4
    /\ calls[1].layer = 3
    /\ calls[4].layer = 0
    /\ ret.out.k = "ndarray"
    /\ calls[2].arg # ret.arg

\* Every element a container holds is a Module.
AllModules(c) ==
    IF IsModuleList(c) THEN \A t \in 1..Len(c.modules) : IsModule(c.modules[t])
    ELSE IF IsModule(c) /\ IsSequential(c)
    THEN \A t \in 1..Len(Layers(c)) : IsModule(Layers(c)[t])
    ELSE TRUE

\* C7: constructing a Sequential or a ModuleList with an element that is not
\* a Module, and append or item assignment of one on a ModuleList, raise and
\* leave the container as it was, so every element of a container is a Module.
C7_ContainersHoldModules ==
    /\ box.bad => (box.exc # NoExc /\ box.obj = box.before)
    /\ AllModules(box.obj)

\* C8: after train-mode forward calls on a tree with a normalization layer,
\* exporting it and importing the mapping into the twin, the import having
\* returned, the twin has the running means and variances of the exported tree.
C8_RunningStatsTravel ==
    (/\ ret.op = "load_state_dict"
     /\ ret.fresh
     /\ ret.tgt = "twin"
     /\ ret.exc = NoExc
     /\ HasNorm(net))
        => RunningStats(heap, twin) = RunningStats(heap, net)

\* The Parameters of the tree, each named by its path: a Parameter is what
\* state_dict exports a value for.
AllParameters(m) ==
    {SubSeq(k, 1, Len(k) - 2) : k \in {q \in ParamKeys(m) : EndsWith(q, "value")}}

\* The index of the layer a path of a Sequential goes through.
LayerOf(path) == StrToInt(Split(path)[2])

\* C9: Sequential.parameters() returns every Parameter of the tree under its
\* layers, those of nested containers and of ModuleList holders included,
\* each once and in layer order.
C9_ParametersEnumeratesAll ==
    ret.op = "parameters" =>
        LET ps == ret.out.items
        IN /\ {ps[t] : t \in 1..Len(ps)} = AllParameters(net)
           /\ Len(ps) = Cardinality(AllParameters(net))
           /\ \A t, u \in 1..Len(ps) : t < u => LayerOf(ps[t]) <= LayerOf(ps[u])

\* The input zero-padded by p on each spatial side, at (n, c, i, j).
XPad(x, p, n, c, i, j) ==
    IF i >= p /\ i < x.shape[3] + p /\ j >= p /\ j < x.shape[4] + p
    THEN At(x, <<n, c, i - p, j - p>>)
    ELSE 0

\* Direct convolution: bias[o] plus the sum over c, a, b of
\* weight[o, c, a, b] * xpad[n, c, y * s + a, xx * s + b].
DirectConv(weight, bias, s, p, x, n, o, y, xx) ==
    LET taps == (0..weight.shape[2] - 1) \X (0..weight.shape[3] - 1) \X (0..weight.shape[4] - 1)
        term(t) == FMul(At(weight, <<o, t[1], t[2], t[3]>>),
                        XPad(x, p, n, t[1], y * s + t[2], xx * s + t[3]))
        RECURSIVE Sum(_)
        Sum(S) == IF S = {} THEN 0
                  ELSE LET t == CHOOSE u \in S : TRUE IN term(t) + Sum(S \ {t})
    IN At(bias, <<o>>) + Sum(taps)

\* C10: for an input (N, C, H, W), a weight (O, C, kh, kw), stride s and
\* padding p with the field fitting the padded input, Conv2d.forward returns
\* an array of shape (N, O, (H+2p-kh) div s + 1, (W+2p-kw) div s + 1) whose
\* entry (n, o, y, x) is the direct convolution at that place.
C10_ForwardIsDirectConvolution ==
    steps > 0 =>
        LET x == cv.x
            w == cv.weight
            h_out == (x.shape[3] + 2 * cv.padding - w.shape[3]) \div cv.stride + 1
            w_out == (x.shape[4] + 2 * cv.padding - w.shape[4]) \div cv.stride + 1
        IN /\ cv.out.shape = <<x.shape[1], w.shape[1], h_out, w_out>>
           /\ \A n \in 0..x.shape[1] - 1, o \in 0..w.shape[1] - 1,
                 y \in 0..h_out - 1, xx \in 0..w_out - 1 :
                At(cv.out, <<n, o, y, xx>>)
                  = DirectConv(w, cv.bias, cv.stride, cv.padding, x, n, o, y, xx)

\* Two images of three rows went through two filters of height two with
\* stride two and padding one, and the output has two rows and two columns.
C10_Witness ==
    /\ steps > 0
    /\ cv.x.shape[1] = 2
    /\ cv.x.shape[3] = 3
    /\ cv.weight.shape[1] = 2
    /\ cv.weight.shape[3] = 2
    /\ cv.stride = 2
    /\ cv.padding = 1
    /\ cv.out.shape[3] = 2
    /\ cv.out.shape[4] = 2

\* The reference transposed convolution: bias[o] plus the sum of
\* inp[n, c, i, j] * weight[c, o, a, b] over the c, i, j, a, b with
\* i * s_h + a - p_h = y and j * s_w + b - p_w = xx.
DirectConvTranspose(weight, bias, s, p, x, n, o, y, xx) ==
    LET cells == (0..x.shape[2] - 1) \X (0..x.shape[3] - 1) \X (0..x.shape[4] - 1)
        a(t) == y + p[1] - t[2] * s[1]
        b(t) == xx + p[2] - t[3] * s[2]
        term(t) == IF /\ a(t) >= 0 /\ a(t) < weight.shape[3]
                      /\ b(t) >= 0 /\ b(t) < weight.shape[4]
                   THEN FMul(At(weight, <<t[1], o, a(t), b(t)>>),
                             At(x, <<n, t[1], t[2], t[3]>>))
                   ELSE 0
        RECURSIVE Sum(_)
        Sum(S) == IF S = {} THEN 0
                  ELSE LET t == CHOOSE u \in S : TRUE IN term(t) + Sum(S \ {t})
    IN At(bias, <<o>>) + Sum(cells)

\* C11: for an input (N, C, H, W), a weight (C, O, kh, kw), strides, paddings
\* and output paddings giving an output of at least 1x1,
\* ConvTranspose2d.forward returns an array of shape
\* (N, O, (H-1)*s_h - 2*p_h + kh + op_h, (W-1)*s_w - 2*p_w + kw + op_w) whose
\* entry (n, o, y, x) is the reference transposed convolution at that place.
C11_ForwardIsTransposedConvolution ==
    (steps > 0 /\ "output_padding" \in DOMAIN cv) =>
        LET x == cv.x
            w == cv.weight
            out_h == TransposedSize(x.shape[3], cv.stride[1], cv.padding[1], w.shape[3],
                                    cv.output_padding[1])
            out_w == TransposedSize(x.shape[4], cv.stride[2], cv.padding[2], w.shape[4],
                                    cv.output_padding[2])
        IN /\ cv.out.shape = <<x.shape[1], w.shape[2], out_h, out_w>>
           /\ \A n \in 0..x.shape[1] - 1, o \in 0..w.shape[2] - 1,
                 y \in 0..out_h - 1, xx \in 0..out_w - 1 :
                At(cv.out, <<n, o, y, xx>>)
                  = DirectConvTranspose(w, cv.bias, cv.stride, cv.padding, x, n, o, y, xx)

\* C12: a backward call of a layer that caches forward state leaves the
\* layer's attributes, and every element of the array the forward before it
\* was given, as they were.
C12_BackwardKeepsCache ==
    [][(steps' = steps + 1 /\ "pool" \in DOMAIN cv' /\ cv'.op = "backward")
         => /\ cv'.m = cv.m
            /\ cv'.pool = cv.pool]_vars

\* C13: LeakyReLULayer.backward called after forward(inp) returns grad times
\* leak where inp < 0 and grad itself everywhere else.
C13_LeakyBackwardMasks ==
    (/\ "pool" \in DOMAIN cv
     /\ cv.m.cls = "LeakyReLULayer"
     /\ cv.op = "backward"
     /\ cv.after = "forward")
        => /\ cv.exc = NoExc
           /\ cv.out = NdArray([i \in 1..Batch |->
                                  FMul(cv.arg.v[i],
                                       IF cv.inp.v[i] < 0 THEN cv.m.attrs.leak.v ELSE One)])

\* The number of windows that cover position h of a side of length n.
Covering(h, n, p, f, s) ==
    Cardinality({y \in 0..OutSize(n, p, f, s) - 1 : y * s <= h + p /\ h + p < y * s + f})

\* C14: col2im_indices(im2col_indices(x, ...), x.shape, ...) has the shape of
\* x; it equals x when the stride is at least the field in both directions,
\* and otherwise holds at each place x there times the number of windows
\* covering the place.
C14_PatchRoundTrip ==
    ("back" \in DOMAIN cv /\ cv.back # NoneObj) =>
        LET x == cv.x
            cover(idx) ==
                Covering(idx[3], x.shape[3], cv.padding[1], cv.field[1], cv.stride[1])
                  * Covering(idx[4], x.shape[4], cv.padding[2], cv.field[2], cv.stride[2])
        IN /\ cv.back.shape = x.shape
           /\ IF cv.stride[1] >= cv.field[1] /\ cv.stride[2] >= cv.field[2]
              THEN cv.back = x
              ELSE cv.back = FromFn(x.shape, LAMBDA idx : At(x, idx) * cover(idx))

\* The input zero-padded by p_h rows and p_w columns on each side, at (n, c, i, j).
XPadAt(x, p_h, p_w, n, c, i, j) ==
    IF i >= p_h /\ i < x.shape[3] + p_h /\ j >= p_w /\ j < x.shape[4] + p_w
    THEN At(x, <<n, c, i - p_h, j - p_w>>)
    ELSE 0

\* Whether cols has a row per (channel, field_row, field_col), in that order,
\* and a column per sample and window, the column of sample n and window
\* (y, xx) being Column(n, y, xx), holding that window's patch of the sample.
PatchMatrix(Column(_, _, _)) ==
    LET x == cv.x
        fh == cv.field[1]
        fw == cv.field[2]
        out_h == OutSize(x.shape[3], cv.padding[1], fh, cv.stride[1])
        out_w == OutSize(x.shape[4], cv.padding[2], fw, cv.stride[2])
    IN /\ cv.cols.shape = <<x.shape[2] * fh * fw, x.shape[1] * out_h * out_w>>
       /\ \A n \in 0..x.shape[1] - 1, c \in 0..x.shape[2] - 1, a \in 0..fh - 1,
             b \in 0..fw - 1, y \in 0..out_h - 1, xx \in 0..out_w - 1 :
            At(cv.cols, <<c * fh * fw + a * fw + b, Column(n, y, xx)>>)
              = XPadAt(x, cv.padding[1], cv.padding[2], n, c,
                       y * cv.stride[1] + a, xx * cv.stride[2] + b)

Im2colDone == "cols" \in DOMAIN cv /\ cv.cols # NoneObj

\* C16 as stated: im2col_indices returns a (C*field_h*field_w, N*out_h*out_w)
\* matrix with rows in (channel, field_row, field_col) order whose column
\* n*out_h*out_w + y*out_w + x holds the patch of sample n at window (y, x).
C16_ColumnsBatchMajor ==
    Im2colDone =>
        PatchMatrix(LAMBDA n, y, xx :
            n * OutSize(cv.x.shape[3], cv.padding[1], cv.field[1], cv.stride[1])
              * OutSize(cv.x.shape[4], cv.padding[2], cv.field[2], cv.stride[2])
              + y * OutSize(cv.x.shape[4], cv.padding[2], cv.field[2], cv.stride[2]) + xx)

\* C16 amended: im2col_indices returns a (C*field_h*field_w, N*out_h*out_w)
\* matrix with rows in (channel, field_row, field_col) order whose column
\* (y*out_w + x)*N + n holds the patch of sample n at window (y, x): the
\* columns run window by window, the samples of one window side by side.
C16_ColumnsWindowMajor ==
    Im2colDone =>
        PatchMatrix(LAMBDA n, y, xx :
            (y * OutSize(cv.x.shape[4], cv.padding[2], cv.field[2], cv.stride[2]) + xx)
              * cv.x.shape[1] + n)

\* Two samples of three pixels in a row went through a field of two columns:
\* the matrix has two rows and four columns.
C16_Witness ==
    /\ Im2colDone
    /\ cv.x.shape = <<2, 1, 1, 3>>
    /\ cv.field = <<1, 2>>
    /\ cv.stride = <<1, 1>>
    /\ cv.padding = <<0, 0>>
    /\ cv.cols.shape = <<2, 4>>

\* The running mean and variance of channel c after train-mode calls on the
\* given inputs: running = momentum * running + (1 - momentum) * batch_stat,
\* from 0 and 1.
RECURSIVE RunningMeanOf(_, _)
RunningMeanOf(inputs, c) ==
    IF Len(inputs) = 0 THEN 0
    ELSE RunningUpdate(MomentumArg,
                       RunningMeanOf(SubSeq(inputs, 1, Len(inputs) - 1), c),
                       Mean(ChannelOf(inputs[Len(inputs)], c)))

RECURSIVE RunningVarOf(_, _)
RunningVarOf(inputs, c) ==
    IF Len(inputs) = 0 THEN One
    ELSE RunningUpdate(MomentumArg,
                       RunningVarOf(SubSeq(inputs, 1, Len(inputs) - 1), c),
                       Var(ChannelOf(inputs[Len(inputs)], c)))

\* C15: after train-mode forward calls on a BatchNorm2d of C channels,
\* running_mean and running_var hold C numbers each, those the update rule
\* gives channel by channel, and an eval-mode forward returns an array of the
\* input's shape whose every element of channel c is normalized with the
\* running mean and variance of channel c.
C15_PerChannelRunningStats ==
    ("bn" \in DOMAIN cv /\ Len(cv.trained) > 0) =>
        LET C == cv.bn.num_features
        IN /\ Prod(cv.bn.running_mean.shape) = C
           /\ Prod(cv.bn.running_var.shape) = C
           /\ \A c \in 1..C :
                /\ cv.bn.running_mean.data[c] = RunningMeanOf(cv.trained, c - 1)
                /\ cv.bn.running_var.data[c] = RunningVarOf(cv.trained, c - 1)
           /\ (cv.op = "forward" /\ ~cv.train) =>
                /\ cv.exc = NoExc
                /\ cv.out = FromFn(cv.inp.shape,
                                   LAMBDA idx :
                                     FDiv(At(cv.inp, idx) - RunningMeanOf(cv.trained, idx[2]),
                                          FSqrt(RunningVarOf(cv.trained, idx[2]) + EpsArg)))

\* C17: once twin.load_state_dict(net.state_dict()) has returned, a forward
\* or backward call on net changes no Parameter value and no Parameter grad
\* of twin.
C17_TreesStayIndependent ==
    [][(moved /\ steps' = steps + 1 /\ ret'.op \in {"forward", "backward"})
         => Contents(heap', state_dict(twin')) = Contents(heap, state_dict(twin))]_vars

====
